---- MODULE Spec2Model ----
(***************************************************************************)
(* Verification model of the UART <-> TCP bridge (espc3-tcptool).          *)
(*                                                                         *)
(*   tcp_client_manager.rs  the client registry (TcpClientManager)         *)
(*   tcp_server.rs          command protocol and per-connection handler    *)
(*   uart.rs                the serial bridge (UartManager)                *)
(*                                                                         *)
(* Every operation of the code is one action; the inputs of an operation   *)
(* (addresses, payloads, I/O results of the sockets, of the UART driver    *)
(* and of the flash store) are drawn from the small sets defined below.    *)
(* The variables lastOp, lastRet, regLocks, wire, trace record what the    *)
(* most recent operation returned and wrote, so that the properties of a   *)
(* single call can be stated as state predicates.                          *)
(***************************************************************************)
EXTENDS Integers, Sequences, FiniteSets, TLC

\* ------------------------------------------------------------------ bounds
NumConns == 3
MaxCount == 3
MaxData == 2
MaxPayload == 4
MaxHandlers == 2
MaxLog == 3

\* The TCP connections the server accepts, in the order of their ids. They
\* come from NumAddrs peer addresses in turn, so that connection NumAddrs + 1
\* is a reconnection from the address of connection 1.
Conns == 1..NumConns
NumAddrs == (NumConns + 1) \div 2

\* TcpStream::peer_addr()
PeerAddr(c) == ((c - 1) % NumAddrs) + 1

Addrs == {PeerAddr(c) : c \in Conns}

\* The value of a registry slot that holds no entry (HashMap::get == None).
NoConn == 0

\* UartConfig::default().baudrate
DefaultBaud == 115200

\* read_baudrate() == None: nothing is stored under the key.
NoBaud == 0

VARIABLES
    clients,       \* TcpClientManager.clients: Addrs -> Conns \cup {NoConn}
    client_count,  \* TcpClientManager.client_count (AtomicUsize, read as a
                   \* 32-bit two's complement number: -1 is usize::MAX)
    evicted,       \* history: some broadcast call has removed an entry
    lastOp,        \* name of the most recent operation
    lastKey,       \* the connection (add, accept, read) or the address
                   \* (remove) it was called for; 0 when it has none
    lastArg,       \* its bytes: the frame of a broadcast, what a read returned
    lastRet,       \* its integer result; for add and remove the local
                   \* is_new_client / removed as 1 or 0; -1 when it has none
    regLocks,      \* how often it acquired the registry lock
    wire,          \* Conns -> what it did on that connection's TcpStream
    trace,         \* what else it did, in order: calls of process_command,
                   \* uart.write, uart_set_baudrate, save_baudrate
    hstate,        \* Conns -> where the connection's handler thread is: "new"
                   \* (not accepted), "spawned", "serving" (in the loop, not in
                   \* a read), "reading" (inside a blocking read, holding the
                   \* stream lock), "closed" and "errored" (terminated)
    nonblocking,   \* Conns -> BOOLEAN: the mode of the connection's TcpStream
    baudrate,      \* UartManager.config.baudrate
    hwBaud,        \* the rate the UART hardware runs at
    storage,       \* UartManager.storage is Some(..)
    nvs,           \* the u32 stored under "uart_baud" in flash, NoBaud if none
    lastSet,       \* history: the rate of the last set_baudrate call that
                   \* returned Ok, NoBaud before the first one
    fwd,           \* the forwarding thread of start_forwarding: where it is
                   \* (pc) and its locals: the count it got, the frame it
                   \* read, the streams of broadcast's snapshot still to
                   \* write (todo), the one being written (cur) and
                   \* disconnected_clients (disc)
    rx,            \* history: Conns -> the payloads its handler read that
                   \* are no commands, each with the result of its UART write
    tx,            \* history: Conns -> the payloads written to the UART for it
    loop,          \* the locals of start_forwarding's closure (buffer,
                   \* adaptive_interval, check_counter, last_data_time as the
                   \* milliseconds elapsed since), where the loop is (pc),
                   \* what its last step did (event), the bytes its last
                   \* uart.read stored (frame) and, while these await their
                   \* broadcast, whether the registry was empty when that
                   \* read returned (alone)
    sess           \* Conns -> the welcome message the handler has formatted
                   \* and not yet written (welcome_msg), what it wrote to its
                   \* client before the loop (banner), the keep-alive
                   \* intervals elapsed since client_data.last_interaction
                   \* (idle) and the rate
                   \* process_command parsed, until it has answered (baud)

regVars == <<clients, client_count, evicted>>
obsVars == <<lastOp, lastKey, lastArg, lastRet, regLocks, wire, trace>>
connVars == <<hstate, nonblocking>>
uartVars == <<baudrate, hwBaud, storage, nvs, lastSet>>
thrVars == <<fwd, rx, tx, loop, sess>>
vars == <<clients, client_count, evicted,
          lastOp, lastKey, lastArg, lastRet, regLocks, wire, trace,
          hstate, nonblocking, baudrate, hwBaud, storage, nvs, lastSet,
          fwd, rx, tx, loop, sess>>

\* ------------------------------------------------------------ socket I/O
\* std::io::ErrorKind values the code tells apart, and "Ok".
TransientKinds == {"WouldBlock", "TimedOut"}
FatalKinds == {"BrokenPipe", "ConnectionReset"}

\* format!("{:?}", e) of an io::Error made from an OS error code.
DebugFmt(kind) == <<"Os", "code", "kind", kind, "message">>

\* error_string.contains(word)
Contains(tokens, word) == \E i \in 1..Len(tokens) : tokens[i] = word

IsTransient_FatalOnWouldBlock(kind) == Contains(DebugFmt(kind), "TimedOut")

\* "WouldBlock" or "TimedOut" appears in the error's debug text.
IsTransient(kind) ==
    Contains(DebugFmt(kind), "WouldBlock") \/ Contains(DebugFmt(kind), "TimedOut")

\* Nothing was done on a connection's stream.
NoIO == [kind |-> "none", w |-> "Ok", f |-> "Ok", tag |-> "", bytes |-> <<>>]

NoWire == [c \in Conns |-> NoIO]

\* The frames the serial side hands to broadcast: <<>>, <<65>>, <<65, 66>>, ...
Frame(n) == [i \in 1..n |-> 64 + i]
BcData == {Frame(n) : n \in 0..MaxData}

\* What write_all + flush can do on one stream for a frame of the given length:
\* the write completes and the flush returns Ok or an error, or the write fails
\* after n < len bytes went out.
WriteResults(len) ==
    {[w |-> "Ok", n |-> len, f |-> k] : k \in {"Ok"} \cup TransientKinds \cup FatalKinds}
    \cup {[w |-> k, n |-> n, f |-> "Ok"] :
            k \in TransientKinds \cup FatalKinds, n \in 0..(len - 1)}

\* The connections whose peer never reads its socket in SpecStalled: the send
\* buffer stays full and every write fails with a would-block / timeout
\* condition.
StalledConns == {1}

WriteResultsFor(c, len, never_reads) ==
    IF c \in never_reads
    THEN {r \in WriteResults(len) : r.w \in TransientKinds}
    ELSE WriteResults(len)

\* ------------------------------------------------------- client registry
ContainsKey(map, a) == map[a] # NoConn

MapLen(map) == Cardinality({a \in Addrs : ContainsKey(map, a)})

\* AtomicUsize::fetch_add(1) / fetch_sub(1): wrapping, in the signed reading.
FetchAdd(c) == c + 1
FetchSub(c) == c - 1

AddCount_AlwaysIncrement(count, is_new) == FetchAdd(count)

\* add_client, after the map lock is released: count the client if it is new.
AddCount(count, is_new) == IF is_new THEN FetchAdd(count) ELSE count

RemoveCount_AlwaysDecrement(count, removed) == FetchSub(count)

\* remove_client, after the map lock is released.
RemoveCount(count, removed) == IF removed THEN FetchSub(count) ELSE count

\* HashMap::insert(addr, stream_arc)
MapRemove_KeepsEntry(map, a) == map

MapInsert_KeepsExisting(map, a, c) ==
    IF map[a] # NoConn THEN map ELSE [map EXCEPT ![a] = c]

MapInsert(map, a, c) == [map EXCEPT ![a] = c]

\* HashMap::remove(addr)
MapRemove(map, a) == [map EXCEPT ![a] = NoConn]

\* The copy of the (address, stream) pairs broadcast takes under the lock.
Snapshot(map) == {a \in Addrs : ContainsKey(map, a)}

Counted_AlsoOnTransientWrite(r) ==
    \/ r.w = "Ok" /\ (r.f = "Ok" \/ IsTransient(r.f))
    \/ r.w # "Ok" /\ IsTransient(r.w)

\* broadcast's loop body: does this write+flush result add to success_count?
Counted(r) == r.w = "Ok" /\ (r.f = "Ok" \/ IsTransient(r.f))

\* broadcast's loop body: is the client pushed to disconnected_clients?
Disconnected(r) ==
    IF r.w = "Ok"
    THEN r.f # "Ok" /\ ~IsTransient(r.f)
    ELSE ~IsTransient(r.w)

\* What a broadcast write leaves on a stream: the whole frame, or the part that
\* went out before the error.
Written(data, r) ==
    [kind |-> "data", w |-> r.w, f |-> r.f, tag |-> "",
     bytes |-> IF r.w = "Ok" THEN data ELSE SubSeq(data, 1, r.n)]

LoopNext_StopAtFailure(a, r, rest) == IF r.w = "Ok" /\ r.f = "Ok" THEN rest ELSE {}

\* The clients the for loop still visits after client a: the loop has no break
\* and no early return.
LoopNext(a, r, rest) == rest

\* The for loop of broadcast over the snapshot, one client at a time; io is
\* what has been done on each stream so far.
RECURSIVE BroadcastLoop(_, _, _, _, _, _, _)
BroadcastLoop(todo, map, data, o, disc, succ, io) ==
    IF todo = {}
    THEN [disconnected |-> disc, success_count |-> succ, io |-> io]
    ELSE LET a == CHOOSE x \in todo : TRUE
             rest == LoopNext(a, o[a], todo \ {a})
             io2 == [io EXCEPT ![map[a]] = Written(data, o[a])]
         IN IF Disconnected(o[a])
            THEN BroadcastLoop(rest, map, data, o, disc \cup {a}, succ, io2)
            ELSE BroadcastLoop(rest, map, data, o, disc,
                               IF Counted(o[a]) THEN succ + 1 ELSE succ, io2)

BroadcastSkips_Never(data) == FALSE

\* if data.is_empty() { return Ok(0); }
BroadcastSkips(data) == data = <<>>

\* broadcast's second lock: clients.remove(&addr) for every disconnected client.
EvictAll(map, disc) == [a \in Addrs |-> IF a \in disc THEN NoConn ELSE map[a]]

\* The body of add_client(addr, stream_arc): the entry is inserted or
\* replaced and a new address is counted.
AddClientBody(c) ==
    /\ client_count < MaxCount
    /\ LET a == PeerAddr(c)
           is_new == ~ContainsKey(clients, a)
       IN /\ clients' = MapInsert(clients, a, c)
          /\ client_count' = AddCount(client_count, is_new)
    /\ UNCHANGED evicted

\* The body of remove_client(addr).
RemoveClientBody(a) ==
    /\ LET removed == ContainsKey(clients, a)
       IN /\ clients' = MapRemove(clients, a)
          /\ client_count' = RemoveCount(client_count, removed)
    /\ UNCHANGED evicted

\* TcpClientManager::add_client(addr, stream_arc); the stream is put in
\* blocking mode first.
AddClient(c) ==
    /\ AddClientBody(c)
    /\ nonblocking' = [nonblocking EXCEPT ![c] = FALSE]
    /\ lastOp' = "add"
    /\ lastKey' = c
    /\ lastArg' = <<>>
    /\ lastRet' = IF ContainsKey(clients, PeerAddr(c)) THEN 0 ELSE 1
    /\ regLocks' = 1
    /\ wire' = NoWire
    /\ trace' = <<>>
    /\ UNCHANGED <<hstate, uartVars>>

\* TcpClientManager::remove_client(addr)
RemoveClient(a) ==
    /\ RemoveClientBody(a)
    /\ lastOp' = "remove"
    /\ lastKey' = a
    /\ lastArg' = <<>>
    /\ lastRet' = IF ContainsKey(clients, a) THEN 1 ELSE 0
    /\ regLocks' = 1
    /\ wire' = NoWire
    /\ trace' = <<>>
    /\ UNCHANGED <<connVars, uartVars>>

\* TcpClientManager::broadcast(data), with o the result of write_all + flush on
\* each stream of the snapshot.
BroadcastCall(data, o) ==
    /\ lastOp' = "broadcast"
    /\ lastKey' = 0
    /\ lastArg' = data
    /\ trace' = <<>>
    /\ IF BroadcastSkips(data)
       THEN /\ lastRet' = 0
            /\ regLocks' = 0
            /\ wire' = NoWire
            /\ UNCHANGED <<clients, evicted>>
       ELSE IF Snapshot(clients) = {}
       THEN /\ lastRet' = 0
            /\ regLocks' = 1
            /\ wire' = NoWire
            /\ UNCHANGED <<clients, evicted>>
       ELSE LET snap == Snapshot(clients)
                res == BroadcastLoop(snap, clients, data, o, {}, 0, NoWire)
            IN /\ wire' = res.io
               /\ clients' = IF res.disconnected = {}
                             THEN clients
                             ELSE EvictAll(clients, res.disconnected)
               /\ regLocks' = IF res.disconnected = {} THEN 1 ELSE 2
               /\ evicted' = (evicted \/ res.disconnected # {})
               /\ lastRet' = res.success_count
    /\ UNCHANGED <<client_count, connVars, uartVars>>

\* The inputs of one broadcast call: the I/O result on each client's stream.
BroadcastInputs(data, never_reads) ==
    {o \in [Snapshot(clients) -> WriteResults(Len(data))] :
        \A a \in Snapshot(clients) :
            o[a] \in WriteResultsFor(clients[a], Len(data), never_reads)}

Broadcast ==
    \E data \in BcData : \E o \in BroadcastInputs(data, {}) : BroadcastCall(data, o)

\* broadcast while the peers of StalledConns never read.
BroadcastStalled ==
    \E data \in BcData :
        \E o \in BroadcastInputs(data, StalledConns) : BroadcastCall(data, o)

\* TcpClientManager::client_count()
ClientCount ==
    /\ IF client_count = 0
       THEN /\ client_count' = MapLen(clients)
            /\ lastRet' = MapLen(clients)
            /\ regLocks' = 1
       ELSE /\ lastRet' = client_count
            /\ regLocks' = 0
            /\ UNCHANGED client_count
    /\ lastOp' = "count"
    /\ lastKey' = 0
    /\ lastArg' = <<>>
    /\ wire' = NoWire
    /\ trace' = <<>>
    /\ UNCHANGED <<clients, evicted, connVars, uartVars>>

\* The forwarding thread at the top of its loop, outside every call.
FwdIdle == [pc |-> "idle", count |-> 0, data |-> <<>>, todo |-> {}, cur |-> NoConn, disc |-> {}]

\* UartConfig::default().poll_interval_ms and buffer_size; the buffer is
\* followed for its first BufLen bytes.
DefaultPollMs == 1
BufLen == MaxData

\* start_forwarding's locals before the first iteration, for a configured
\* poll_interval_ms: `vec![0u8; buffer_size]`, adaptive_interval =
\* poll_interval, check_counter = 0, last_data_time = now.
LoopStart(poll_ms) ==
    [pc |-> "top", event |-> "start", poll_interval |-> poll_ms,
     adaptive_interval |-> poll_ms, check_counter |-> 0, elapsed |-> 0,
     buffer |-> [i \in 1..BufLen |-> 0], len |-> 0, frame |-> <<>>, alone |-> TRUE]

\* The longest time without a read of data that is followed, in keep-alive
\* intervals.
MaxIdle == 2

\* handle_client before its welcome message: client_data.last_interaction = now.
NoSession == [welcome_msg |-> <<>>, banner |-> <<>>, idle |-> 0, baud |-> NoBaud]

\* TcpClientManager::new(); no connection accepted, nothing done yet.
InitManager ==
    /\ clients = [a \in Addrs |-> NoConn]
    /\ client_count = 0
    /\ evicted = FALSE
    /\ lastOp = "init"
    /\ lastKey = 0
    /\ lastArg = <<>>
    /\ lastRet = -1
    /\ regLocks = 0
    /\ wire = NoWire
    /\ trace = <<>>
    /\ hstate = [c \in Conns |-> "new"]
    /\ nonblocking = [c \in Conns |-> FALSE]
    /\ fwd = FwdIdle
    /\ rx = [c \in Conns |-> <<>>]
    /\ tx = [c \in Conns |-> <<>>]
    /\ loop = [LoopStart(DefaultPollMs) EXCEPT !.pc = "off"]
    /\ sess = [c \in Conns |-> NoSession]

\* The registry alone: the bridge was built with the default rate and no store.
InitRegistry ==
    /\ InitManager
    /\ baudrate = DefaultBaud
    /\ hwBaud = DefaultBaud
    /\ storage = FALSE
    /\ nvs = NoBaud
    /\ lastSet = NoBaud

\* The registry driven through its public interface by arbitrary callers.
NextRegistry ==
    \/ \E c \in Conns : AddClient(c) /\ UNCHANGED thrVars
    \/ \E a \in Addrs : RemoveClient(a) /\ UNCHANGED thrVars
    \/ Broadcast /\ UNCHANGED thrVars
    \/ ClientCount /\ UNCHANGED thrVars

SpecRegistry == InitRegistry /\ [][NextRegistry]_vars

\* The same callers while the peers of StalledConns never read; the forwarding
\* loop keeps calling broadcast (uart.rs, start_forwarding).
NextStalled ==
    \/ \E c \in Conns : AddClient(c) /\ UNCHANGED thrVars
    \/ \E a \in Addrs : RemoveClient(a) /\ UNCHANGED thrVars
    \/ BroadcastStalled /\ UNCHANGED thrVars
    \/ ClientCount /\ UNCHANGED thrVars

SpecStalled ==
    InitRegistry /\ [][NextStalled]_vars /\ WF_vars(BroadcastStalled /\ UNCHANGED thrVars)

\* ------------------------------------------------------- command protocol
\* Bytes are numbers 0..255; text is a sequence of ASCII codes.

IsCommand_OnlyAT(data) ==
    IF Len(data) < 3 THEN FALSE
    ELSE IF data[1] = 65 /\ data[2] = 84 THEN TRUE
    ELSE FALSE

\* TcpServer::is_command(data)
IsCommand(data) ==
    IF Len(data) < 3 THEN FALSE
    ELSE IF data[1] = 65 /\ data[2] = 84 /\ data[3] = 43 THEN TRUE
    ELSE FALSE

\* std::str::from_utf8(data).is_ok(), for payloads made of ASCII bytes and the
\* bytes 0xF8..0xFF, which occur in no UTF-8 encoding.
Utf8Valid(data) == \A i \in 1..Len(data) : data[i] < 128

\* char::is_whitespace on ASCII: tab, LF, VT, FF, CR, space.
IsSpace(b) == b \in {9, 10, 11, 12, 13, 32}

RECURSIVE TrimStart(_)
TrimStart(t) == IF t # <<>> /\ IsSpace(t[1]) THEN TrimStart(Tail(t)) ELSE t

RECURSIVE TrimEnd(_)
TrimEnd(t) ==
    IF t # <<>> /\ IsSpace(t[Len(t)]) THEN TrimEnd(SubSeq(t, 1, Len(t) - 1)) ELSE t

\* str::trim
Trim(t) == TrimEnd(TrimStart(t))

\* str::starts_with
StartsWith(t, prefix) ==
    Len(t) >= Len(prefix) /\ SubSeq(t, 1, Len(prefix)) = prefix

\* "AT+BAUD=", "AT+BAUD?", "AT+HELP"
CmdSetBaud == <<65, 84, 43, 66, 65, 85, 68, 61>>
CmdQueryBaud == <<65, 84, 43, 66, 65, 85, 68, 63>>
CmdHelp == <<65, 84, 43, 72, 69, 76, 80>>

IsDigit(b) == b \in 48..57

RECURSIVE StripZeros(_)
StripZeros(t) == IF t # <<>> /\ t[1] = 48 THEN StripZeros(Tail(t)) ELSE t

\* "4294967295", u32::MAX
U32MaxDigits == <<52, 50, 57, 52, 57, 54, 55, 50, 57, 53>>

\* The digits stand for a number above u32::MAX (checked_mul / checked_add fail).
Overflows(digits) ==
    LET sig == StripZeros(digits)
    IN \/ Len(sig) > Len(U32MaxDigits)
       \/ /\ Len(sig) = Len(U32MaxDigits)
          /\ \E i \in 1..Len(sig) :
                /\ sig[i] > U32MaxDigits[i]
                /\ \A j \in 1..(i - 1) : sig[j] = U32MaxDigits[j]

RECURSIVE DigitsValue(_)
DigitsValue(digits) ==
    IF digits = <<>> THEN 0
    ELSE 10 * DigitsValue(SubSeq(digits, 1, Len(digits) - 1))
         + (digits[Len(digits)] - 48)

\* str::parse::<u32>(): an optional '+', then one or more decimal digits, the
\* value at most u32::MAX.
ParseU32(t) ==
    LET digits == IF t # <<>> /\ t[1] = 43 THEN Tail(t) ELSE t
    IN IF digits = <<>> \/ (\E i \in 1..Len(digits) : ~IsDigit(digits[i]))
          \/ Overflows(digits)
       THEN [ok |-> FALSE, val |-> 0]
       ELSE [ok |-> TRUE, val |-> DigitsValue(digits)]

\* format!("{}", n) of a u32
RECURSIVE FormatU32(_)
FormatU32(n) ==
    IF n < 10 THEN <<48 + n>>
    ELSE Append(FormatU32(n \div 10), 48 + (n % 10))

\* ----------------------------------------------------------- serial bridge
\* VALID_BAUDRATES
ValidBaudrates ==
    {9600, 19200, 38400, 57600, 115200, 230400, 460800, 921600, 1500000}

IsValidBaudrate_AnyPositive(b) == b > 0

\* UartManager::is_valid_baudrate
IsValidBaudrate(b) == b \in ValidBaudrates

\* UartManager::get_baudrate: the field set_baudrate stores through the raw
\* pointer; an aligned 32-bit load that follows the store yields what was
\* stored.
GetBaudrate == baudrate

SetConfig_OnlyIfApplied(b, hw) == IF hw = "Ok" THEN b ELSE baudrate

\* set_baudrate, "update the internal configuration": done whether or not
\* uart_set_baudrate succeeded.
SetConfig(b, hw) == b

Event(ev, num, bytes) == [ev |-> ev, num |-> num, bytes |-> bytes]

SetReturn_FailsWithStore(save) == IF storage /\ save # "Ok" THEN "Err" ELSE "Ok"

\* What set_baudrate returns once the rate was accepted: Ok(()), whatever the
\* store answered.
SetReturn(save) == "Ok"

\* The calls set_baudrate(b) makes once the rate was accepted, each failure
\* followed by an event that names it.
SetCalls(b, hw, save) ==
    <<Event("uart_set_baudrate", b, <<>>)>>
    \o (IF hw = "Ok" THEN <<>> ELSE <<Event("uart_set_baudrate: Err", b, <<>>)>>)
    \o (IF ~storage THEN <<>>
        ELSE IF save = "LockErr" THEN <<Event("storage.lock: Err", b, <<>>)>>
        ELSE IF save = "Ok" THEN <<Event("save_baudrate", b, <<>>)>>
        ELSE <<Event("save_baudrate", b, <<>>), Event("save_baudrate: Err", b, <<>>)>>)

\* UartManager::set_baudrate(b), with hw the result of uart_set_baudrate and
\* save the result of locking the store and save_baudrate: what the call
\* returns, the new configured, hardware and stored rates, and what it called.
SetBaudrate(b, hw, save) ==
    IF ~IsValidBaudrate(b)
    THEN [ret |-> "Err", req |-> b,
          baudrate |-> baudrate, hwBaud |-> hwBaud, nvs |-> nvs,
          calls |-> <<Event("set_baudrate", b, <<>>),
                      Event("set_baudrate: Err", b, <<>>)>>]
    ELSE [ret |-> SetReturn(save), req |-> b,
          baudrate |-> SetConfig(b, hw),
          hwBaud |-> IF hw = "Ok" THEN b ELSE hwBaud,
          nvs |-> IF storage /\ save = "Ok" THEN b ELSE nvs,
          calls |-> <<Event("set_baudrate", b, <<>>)>>
                    \o SetCalls(b, hw, save)
                    \o <<Event("set_baudrate: " \o SetReturn(save), b, <<>>)>>]

\* No set_baudrate call.
NoSet ==
    [ret |-> "None", req |-> NoBaud,
     baudrate |-> baudrate, hwBaud |-> hwBaud, nvs |-> nvs, calls |-> <<>>]

\* The response process_command builds for a command, the set_baudrate call
\* it made on the way, and what it returns when the response is sent.
Reply(set, tag, arg, ret) == [set |-> set, tag |-> tag, arg |-> arg, ret |-> ret]

QueryReply_Default == Reply(NoSet, "Current baudrate: ", FormatU32(DefaultBaud), "Ok")

\* process_command, branch AT+BAUD?
QueryReply == Reply(NoSet, "Current baudrate: ", FormatU32(GetBaudrate), "Ok")

SetReply_ParseFailureSetsDefault(baud_str, hw, save) ==
    LET parsed == ParseU32(baud_str)
        set == SetBaudrate(IF parsed.ok THEN parsed.val ELSE DefaultBaud, hw, save)
    IN IF parsed.ok /\ set.ret = "Ok"
       THEN Reply(set, "OK: Baudrate changed to ", FormatU32(parsed.val), "Ok")
       ELSE IF parsed.ok
       THEN Reply(set, "ERROR: Failed to set baudrate: UART error: Invalid baudrate: ",
                  FormatU32(parsed.val), "Ok")
       ELSE Reply(set, "ERROR: Invalid baudrate value: ", baud_str, "Ok")

\* process_command, branch AT+BAUD=<rate>
SetReply(baud_str, hw, save) ==
    LET parsed == ParseU32(baud_str)
    IN IF parsed.ok
       THEN LET set == SetBaudrate(parsed.val, hw, save)
            IN IF set.ret = "Ok"
               THEN Reply(set, "OK: Baudrate changed to ", FormatU32(parsed.val), "Ok")
               ELSE Reply(set, "ERROR: Failed to set baudrate: UART error: Invalid baudrate: ",
                          FormatU32(parsed.val), "Ok")
       ELSE Reply(NoSet, "ERROR: Invalid baudrate value: ", baud_str, "Ok")

\* TcpServer::process_command up to its send_response call.
CommandReply(data, hw, save) ==
    IF ~Utf8Valid(data)
    THEN Reply(NoSet, "ERROR: Invalid command format (not UTF-8)", <<>>, "Err")
    ELSE LET cmd_str == Trim(data)
         IN IF StartsWith(cmd_str, CmdSetBaud)
            THEN SetReply(SubSeq(cmd_str, Len(CmdSetBaud) + 1, Len(cmd_str)), hw, save)
            ELSE IF StartsWith(cmd_str, CmdQueryBaud)
            THEN QueryReply
            ELSE IF StartsWith(cmd_str, CmdHelp)
            THEN Reply(NoSet, "Available commands", <<>>, "Ok")
            ELSE Reply(NoSet, "ERROR: Unknown command: ", cmd_str, "Ok")


\* ------------------------------------------------------ connection handler
\* The results of write_all + flush on a stream in blocking mode.
SendResults ==
    {[w |-> "Ok", f |-> "Ok"], [w |-> "BrokenPipe", f |-> "Ok"],
     [w |-> "Ok", f |-> "BrokenPipe"]}

Sent(kind, tag, bytes, sr) ==
    [kind |-> kind, w |-> sr.w, f |-> sr.f, tag |-> tag, bytes |-> bytes]

ResponseStream_FirstRegistered(c) ==
    IF Snapshot(clients) = {} THEN c
    ELSE clients[CHOOSE a \in Snapshot(clients) : \A b \in Snapshot(clients) : a <= b]

\* The stream process_command and send_response are given: the stream_arc of
\* the handler that read the command.
ResponseStream(c) == c

\* TcpServer::send_response(stream_arc, response, peer_addr): the stream is
\* put in blocking mode, and back in non-blocking mode when both the write
\* and the flush succeeded.
SendResponse(c, reply, sr) ==
    [stream |-> ResponseStream(c),
     io |-> Sent("response", reply.tag, reply.arg, sr),
     nonblocking |-> (sr.w = "Ok" /\ sr.f = "Ok"),
     ret |-> IF sr.w = "Ok" /\ sr.f = "Ok" THEN reply.ret ELSE "Err"]

SendData_DropsLastByte(data, uw) ==
    IF data = <<>> THEN <<>>
    ELSE <<Event("uart_write", IF uw = "Ok" THEN 0 ELSE 1,
                 SubSeq(data, 1, Len(data) - 1))>>

SendData_WritesTwice(data, uw) ==
    IF data = <<>> THEN <<>>
    ELSE <<Event("uart_write", IF uw = "Ok" THEN 0 ELSE 1, data),
           Event("uart_write", IF uw = "Ok" THEN 0 ELSE 1, data)>>

\* UartManager::send_data(data), with uw the result of uart.write.
SendData(data, uw) ==
    IF data = <<>> THEN <<>>
    ELSE <<Event("uart_write", IF uw = "Ok" THEN 0 ELSE 1, data)>>

\* What the driver, the store and the socket answer while one read is handled.
IoResults(data) ==
    LET applies == IsCommand(data) /\ CommandReply(data, "Ok", "Ok").set.ret = "Ok"
    IN {[hw |-> hw, save |-> save, sr |-> sr, uw |-> uw] :
           hw \in IF applies THEN {"Ok", "Err"} ELSE {"Ok"},
           save \in IF applies /\ storage THEN {"Ok", "Err", "LockErr"} ELSE {"Ok"},
           sr \in IF IsCommand(data) THEN SendResults ELSE {[w |-> "Ok", f |-> "Ok"]},
           uw \in IF IsCommand(data) THEN {"Ok"} ELSE {"Ok", "Err"}}

\* handle_client from its entry to the read loop: the client is added to the
\* registry, the stream is put in non-blocking mode and the welcome message,
\* which carries the current rate, is written.
HandleClientEntry(c, sr) ==
    /\ AddClientBody(c)
    /\ hstate' = [hstate EXCEPT ![c] = "serving"]
    /\ nonblocking' = [nonblocking EXCEPT ![c] = TRUE]
    /\ wire' = [NoWire EXCEPT ![c] = Sent("welcome", "Welcome", FormatU32(GetBaudrate), sr)]
    /\ lastOp' = "accept"
    /\ lastKey' = c
    /\ lastArg' = <<>>
    /\ lastRet' = -1
    /\ regLocks' = 2
    /\ trace' = <<>>
    /\ UNCHANGED uartVars

\* A connection is accepted and its handler runs up to the read loop.
\* Connections are accepted in the order of their ids, MaxHandlers of them.
HandleClientStart(c, sr) ==
    /\ hstate[c] = "new"
    /\ c <= MaxHandlers
    /\ \A d \in Conns : d < c => hstate[d] # "new"
    /\ HandleClientEntry(c, sr)

OnCommandResult_ErrEndsHandler(ret) == IF ret = "Err" THEN "errored" ELSE "serving"

\* handle_client after process_command returned: an error is logged and the
\* loop goes on.
OnCommandResult(ret) == "serving"

\* One pass of handle_client's loop in which read returns Ok(n) with n > 0 and
\* data = buffer[0..n]: a command is processed and answered, anything else is
\* sent to the UART.
HandleClientData(c, data, io) ==
    /\ hstate[c] \in {"serving", "reading"}
    /\ data # <<>>
    /\ lastOp' = "read"
    /\ lastKey' = c
    /\ lastArg' = data
    /\ lastRet' = Len(data)
    /\ regLocks' = 0
    /\ IF IsCommand(data)
       THEN \E reply \in {CommandReply(data, io.hw, io.save)} :
            \E sent \in {SendResponse(c, reply, io.sr)} :
               /\ trace' = <<Event("process_command", IF sent.ret = "Ok" THEN 0 ELSE 1, data)>>
                           \o reply.set.calls
                           \o <<Event("send_response", sent.stream, reply.arg)>>
               /\ wire' = [NoWire EXCEPT ![sent.stream] = sent.io]
               /\ nonblocking' = [nonblocking EXCEPT ![sent.stream] = sent.nonblocking]
               /\ baudrate' = reply.set.baudrate
               /\ hwBaud' = reply.set.hwBaud
               /\ nvs' = reply.set.nvs
               /\ lastSet' = IF reply.set.ret = "Ok" THEN reply.set.req ELSE lastSet
               /\ hstate' = [hstate EXCEPT ![c] = OnCommandResult(sent.ret)]
       ELSE /\ trace' = SendData(data, io.uw)
            /\ wire' = NoWire
            /\ hstate' = [hstate EXCEPT ![c] = "serving"]
            /\ UNCHANGED <<nonblocking, baudrate, hwBaud, nvs, lastSet>>
    /\ UNCHANGED <<regVars, storage>>

\* ----------------------------------------------------------------- payloads
CRLF == <<13, 10>>

\* "AT+BAUD=<rate>"
SetFrame(rate) == CmdSetBaud \o FormatU32(rate)

\* The rates the clients ask for: two of the supported ones and one other.
TriedRates == {9600, 115200, 12345}

\* What the clients send in one read: set-speed frames, also with a sign and
\* a line end, values that do not parse (no digits, a letter, more than
\* u32::MAX), a query, help, an unknown command, a command that is not UTF-8,
\* and data ("hello", "AT", " AT+HELP").
ReadPayloads ==
    {SetFrame(r) : r \in TriedRates}
    \cup {CmdSetBaud \o <<43>> \o FormatU32(9600) \o CRLF,
          CmdSetBaud,
          CmdSetBaud \o <<57, 54, 120>>,
          CmdSetBaud \o <<57, 57, 57, 57, 57, 57, 57, 57, 57, 57, 57>>,
          CmdQueryBaud,
          CmdHelp \o CRLF,
          <<65, 84, 43, 66, 79, 71, 85, 83>>,
          <<65, 84, 43, 255>>,
          <<104, 101, 108, 108, 111>>,
          <<65, 84>>,
          <<32, 65, 84, 43, 72, 69, 76, 80>>}

\* What the flash store holds when the bridge starts: nothing, a supported
\* rate, or a value that is not a supported rate.
StoredAtBoot == {NoBaud, 9600, 4800}

\* UartManager::new: the rate read from flash is used when there is a store,
\* a value and the value is valid; the driver is created with that rate.
InitUart ==
    /\ storage \in BOOLEAN
    /\ nvs \in IF storage THEN StoredAtBoot ELSE {NoBaud}
    /\ baudrate = IF storage /\ nvs # NoBaud /\ IsValidBaudrate(nvs)
                  THEN nvs ELSE DefaultBaud
    /\ hwBaud = baudrate
    /\ lastSet = NoBaud

\* The byte strings over the letters of "AT+" and one other letter, up to
\* MaxPayload bytes.
Letters == {65, 84, 43, 66}

RECURSIVE Strings(_)
Strings(n) ==
    IF n = 0 THEN {<<>>}
    ELSE Strings(n - 1)
         \cup {Append(t, b) : t \in {u \in Strings(n - 1) : Len(u) = n - 1},
                              b \in Letters}

\* TcpServer::is_command(data) called on its own.
IsCommandCall(data) ==
    /\ lastOp' = "is_command"
    /\ lastKey' = 0
    /\ lastArg' = data
    /\ lastRet' = IF IsCommand(data) THEN 1 ELSE 0
    /\ regLocks' = 0
    /\ wire' = NoWire
    /\ trace' = <<>>
    /\ UNCHANGED <<regVars, connVars, uartVars>>

NextIsCommand ==
    \E data \in Strings(MaxPayload) : IsCommandCall(data) /\ UNCHANGED thrVars

SpecIsCommand == InitRegistry /\ [][NextIsCommand]_vars

\* The server with its handlers: connections are accepted and every handler
\* reads what its client sends.
InitCommand == InitManager /\ InitUart

NextCommand ==
    \/ \E c \in Conns : \E sr \in SendResults : HandleClientStart(c, sr) /\ UNCHANGED thrVars
    \/ \E c \in Conns : \E data \in ReadPayloads :
          \E io \in IoResults(data) : HandleClientData(c, data, io) /\ UNCHANGED thrVars

SpecCommand == InitCommand /\ [][NextCommand]_vars


\* ------------------------------------------------- the serial bridge alone
\* The rates set_baudrate is called with: every supported rate and one other.
CallRates == ValidBaudrates \cup {12345}

\* UartManager::set_baudrate(b) called on its own.
SetBaudrateCall(b, hw, save) ==
    /\ \E set \in {SetBaudrate(b, hw, save)} :
          /\ baudrate' = set.baudrate
          /\ hwBaud' = set.hwBaud
          /\ nvs' = set.nvs
          /\ lastSet' = IF set.ret = "Ok" THEN set.req ELSE lastSet
          /\ lastRet' = IF set.ret = "Ok" THEN 0 ELSE 1
          /\ trace' = set.calls
    /\ lastOp' = "set_baudrate"
    /\ lastKey' = 0
    /\ lastArg' = <<>>
    /\ regLocks' = 0
    /\ wire' = NoWire
    /\ UNCHANGED <<regVars, connVars, storage>>

\* UartManager::get_baudrate() called on its own.
GetBaudrateCall ==
    /\ lastOp' = "get_baudrate"
    /\ lastKey' = 0
    /\ lastArg' = <<>>
    /\ lastRet' = GetBaudrate
    /\ regLocks' = 0
    /\ wire' = NoWire
    /\ trace' = <<>>
    /\ UNCHANGED <<regVars, connVars, uartVars>>

BootRate_AlwaysDefault(has_storage, stored) == DefaultBaud

BootRate_TrustsStore(has_storage, stored) ==
    IF has_storage /\ stored # NoBaud THEN stored ELSE DefaultBaud

\* The rate UartManager::new starts with, given whether StorageManager::new
\* succeeded and what read_baudrate returned.
BootRate(has_storage, stored) ==
    IF has_storage /\ stored # NoBaud /\ IsValidBaudrate(stored)
    THEN stored
    ELSE DefaultBaud

\* StorageManager::read_baudrate, with rd the result of nvs.get_u32.
ReadBaudrate(rd) == IF rd = "Ok" THEN nvs ELSE NoBaud

\* A restart: UartManager::new builds a new bridge over the flash as it is;
\* StorageManager::new succeeds (has_storage) or fails, and so does the read.
UartNew(has_storage, rd) ==
    /\ storage' = has_storage
    /\ baudrate' = BootRate(has_storage, ReadBaudrate(rd))
    /\ hwBaud' = BootRate(has_storage, ReadBaudrate(rd))
    /\ lastSet' = NoBaud
    /\ lastOp' = "new"
    /\ lastKey' = 0
    /\ lastArg' = <<>>
    /\ lastRet' = -1
    /\ regLocks' = 0
    /\ wire' = NoWire
    /\ trace' = IF ~has_storage THEN <<>>
                 ELSE IF rd = "Ok" THEN <<Event("read_baudrate", nvs, <<>>)>>
                 ELSE <<Event("read_baudrate", nvs, <<>>),
                        Event("read_baudrate: Err", nvs, <<>>)>>
    /\ UNCHANGED <<regVars, connVars, nvs>>

NextUart ==
    \/ \E b \in CallRates : \E hw \in {"Ok", "Err"} :
          \E save \in IF storage THEN {"Ok", "Err", "LockErr"} ELSE {"Ok"} :
             SetBaudrateCall(b, hw, save) /\ UNCHANGED thrVars
    \/ GetBaudrateCall /\ UNCHANGED thrVars
    \/ \E has_storage \in BOOLEAN :
          \E rd \in IF has_storage THEN {"Ok", "Err"} ELSE {"Ok"} :
             UartNew(has_storage, rd) /\ UNCHANGED thrVars

SpecUart == InitCommand /\ [][NextUart]_vars


\* ------------------------------------------- accept loop, handlers, broadcast
AcceptReady_AfterHandlers(c) ==
    \A d \in Conns : d < c => hstate[d] \in {"closed", "errored"}

\* What the accept loop waits for before it takes the next connection from
\* listener.incoming(): nothing, thread::spawn returns at once.
AcceptReady(c) == TRUE

\* run's loop, Ok(stream) arm: a thread is spawned to run handle_client.
\* Connections arrive in the order of their ids, MaxHandlers of them.
Accept(c) ==
    /\ hstate[c] = "new"
    /\ c <= MaxHandlers
    /\ \A d \in Conns : d < c => hstate[d] # "new"
    /\ AcceptReady(c)
    /\ hstate' = [hstate EXCEPT ![c] = "spawned"]
    /\ lastOp' = "spawn"
    /\ lastKey' = c
    /\ lastArg' = <<>>
    /\ lastRet' = -1
    /\ regLocks' = 0
    /\ wire' = NoWire
    /\ trace' = <<>>
    /\ UNCHANGED <<regVars, nonblocking, uartVars>>

\* run's loop, Err(e) arm: the error is logged.
AcceptFailed ==
    /\ lastOp' = "accept_err"
    /\ lastKey' = 0
    /\ lastArg' = <<>>
    /\ lastRet' = -1
    /\ regLocks' = 0
    /\ wire' = NoWire
    /\ trace' = <<>>
    /\ UNCHANGED <<regVars, connVars, uartVars>>

\* The spawned thread runs handle_client up to the read loop.
HandlerStart(c, sr) ==
    /\ hstate[c] = "spawned"
    /\ HandleClientEntry(c, sr)

\* handle_client returns at once: stream.peer_addr() failed.
HandlerStartFails(c) ==
    /\ hstate[c] = "spawned"
    /\ hstate' = [hstate EXCEPT ![c] = "errored"]
    /\ lastOp' = "peer_addr_err"
    /\ lastKey' = c
    /\ lastArg' = <<>>
    /\ lastRet' = -1
    /\ regLocks' = 0
    /\ wire' = NoWire
    /\ trace' = <<>>
    /\ UNCHANGED <<regVars, nonblocking, uartVars>>

\* What stream.read returns when it returns no data: Ok(0) or an error.
ReadResults == {"Eof"} \cup TransientKinds \cup FatalKinds

ReadArm_TimedOutEnds(r) ==
    IF r = "Eof" THEN "closed"
    ELSE IF r = "WouldBlock" THEN "serving"
    ELSE "errored"

\* The arm of `match stream.read(&mut buffer)` taken for such a result, named
\* by where it leaves the handler.
ReadArm(r) ==
    IF r = "Eof" THEN "closed"
    ELSE IF IsTransient(r) THEN "serving"
    ELSE "errored"

\* One pass of handle_client's loop in which read returns no data. A
\* would-block result comes from a stream in non-blocking mode only.
HandleClientNoData(c, r) ==
    /\ hstate[c] \in {"serving", "reading"}
    /\ r \in TransientKinds => (hstate[c] = "serving" /\ nonblocking[c])
    /\ \E arm \in {ReadArm(r)} :
          /\ hstate' = [hstate EXCEPT ![c] = arm]
          /\ IF arm = "serving"
             THEN /\ regLocks' = 0
                  /\ UNCHANGED regVars
             ELSE /\ regLocks' = 1
                  /\ RemoveClientBody(PeerAddr(c))
    /\ lastOp' = "read"
    /\ lastKey' = c
    /\ lastArg' = <<>>
    /\ lastRet' = IF r = "Eof" THEN 0 ELSE -1
    /\ wire' = NoWire
    /\ trace' = <<Event("read: " \o r, c, <<>>)>>
    /\ UNCHANGED <<nonblocking, uartVars>>

\* handle_client calls stream.read on a stream in blocking mode while the
\* client sends nothing: the thread waits in read, holding the stream lock.
HandleClientBlock(c) ==
    /\ hstate[c] = "serving"
    /\ ~nonblocking[c]
    /\ hstate' = [hstate EXCEPT ![c] = "reading"]
    /\ lastOp' = "block"
    /\ lastKey' = c
    /\ lastArg' = <<>>
    /\ lastRet' = -1
    /\ regLocks' = 0
    /\ wire' = NoWire
    /\ trace' = <<>>
    /\ UNCHANGED <<regVars, nonblocking, uartVars>>

\* The stream lock of connection c can be taken: no handler waits in read
\* with it.
LockFree(c) == hstate[c] # "reading"

\* The results of write_all + flush the forwarding loop's broadcasts meet.
ForwardWrites ==
    {[w |-> "Ok", n |-> 1, f |-> "Ok"],
     [w |-> "WouldBlock", n |-> 0, f |-> "Ok"],
     [w |-> "BrokenPipe", n |-> 0, f |-> "Ok"]}

\* A broadcast call of the forwarding loop that returns: it takes the lock of
\* every stream of its snapshot.
ForwardBroadcast ==
    /\ \A a \in Snapshot(clients) : LockFree(clients[a])
    /\ \E o \in [Snapshot(clients) -> ForwardWrites] : BroadcastCall(Frame(1), o)

\* What the clients send while the handlers are followed: a query and "hello".
HandlerPayloads == {CmdQueryBaud, <<104, 101, 108, 108, 111>>}

NextHandler ==
    \/ \E c \in Conns : Accept(c) /\ UNCHANGED thrVars
    \/ AcceptFailed /\ UNCHANGED thrVars
    \/ \E c \in Conns : \E sr \in SendResults : HandlerStart(c, sr) /\ UNCHANGED thrVars
    \/ \E c \in Conns : HandlerStartFails(c) /\ UNCHANGED thrVars
    \/ \E c \in Conns : \E data \in HandlerPayloads :
          \E io \in IoResults(data) : HandleClientData(c, data, io) /\ UNCHANGED thrVars
    \/ \E c \in Conns : \E r \in ReadResults : HandleClientNoData(c, r) /\ UNCHANGED thrVars
    \/ \E c \in Conns : HandleClientBlock(c) /\ UNCHANGED thrVars
    \/ ForwardBroadcast /\ UNCHANGED thrVars

SpecHandler == InitRegistry /\ [][NextHandler]_vars


\* --------------------------------------------------------- run: the binds
\* u16::MAX, the largest port.
MaxPort == 65535

\* "192.168.4.1" and "0.0.0.0", as their four numbers.
AltAddress == <<192, 168, 4, 1>>
AnyAddress == <<0, 0, 0, 0>>

\* self.config.port + 1 on a u16: above u16::MAX the addition panics when the
\* build traps overflow (the result is then -1, no port) and wraps otherwise.
FallbackPort(port, overflow_checks) ==
    IF port + 1 > MaxPort
    THEN IF overflow_checks THEN -1 ELSE (port + 1) % (MaxPort + 1)
    ELSE port + 1

\* One TcpListener::bind(addr:port) with result r, and the event of its result.
Bind(addr, port, r) == <<Event("bind", port, addr), Event("bind: " \o r, port, addr)>>

\* run() up to its accept loop for the configured address and port, with r the
\* results of the binds it tries: what it tried, in order, and how it ended:
\* listening on a port, returning the error (-1) or panicking (-2).
RunBinds(addr, port, r, overflow_checks) ==
    IF r[1] = "Ok"
    THEN [calls |-> Bind(addr, port, "Ok"), ret |-> port]
    ELSE IF r[2] = "Ok"
    THEN [calls |-> Bind(addr, port, "Err") \o Bind(AltAddress, port, "Ok"),
          ret |-> port]
    ELSE LET fallback_port == FallbackPort(port, overflow_checks)
             first == Bind(addr, port, "Err") \o Bind(AltAddress, port, "Err")
         IN IF fallback_port = -1
            THEN [calls |-> first, ret |-> -2]
            ELSE [calls |-> first \o Bind(AnyAddress, fallback_port, r[3]),
                  ret |-> IF r[3] = "Ok" THEN fallback_port ELSE -1]

\* The configurations run() is started with.
CfgPorts == {1, 80, 443, 8080, 8081, 9000, 32767, 32768, 49152, 65533, 65534, 65535}
CfgAddrs == {AnyAddress, AltAddress, <<10, 0, 0, 7>>}

\* TcpServer::run() up to the accept loop.
Run(addr, port, r, overflow_checks) ==
    /\ \E run \in {RunBinds(addr, port, r, overflow_checks)} :
          /\ trace' = run.calls
          /\ lastRet' = run.ret
    /\ lastOp' = "run"
    /\ lastKey' = port
    /\ lastArg' = addr
    /\ regLocks' = 0
    /\ wire' = NoWire
    /\ UNCHANGED <<regVars, connVars, uartVars>>

NextRun ==
    \E addr \in CfgAddrs : \E port \in CfgPorts :
       \E r \in [1..3 -> {"Ok", "Err"}] : \E overflow_checks \in BOOLEAN :
          Run(addr, port, r, overflow_checks) /\ UNCHANGED thrVars

SpecRun == InitRegistry /\ [][NextRun]_vars


\* ------------------------------------------- client -> serial, read by read
\* What the clients send while the order of forwarding is followed: "hello"
\* and "AT", which are data, and a query.
ForwardPayloads == {<<104, 101, 108, 108, 111>>, <<65, 84>>, CmdQueryBaud}

\* The bytes of the UART writes among the calls of one pass of the loop.
UartWrites(calls) ==
    LET writes == SelectSeq(calls, LAMBDA e : e.ev = "uart_write")
    IN [i \in 1..Len(writes) |-> writes[i].bytes]

\* The reads followed so far, of all connections.
Logged == [c \in Conns |-> Len(rx[c])]

RECURSIVE SumTo(_, _)
SumTo(f, n) == IF n = 0 THEN 0 ELSE f[n] + SumTo(f, n - 1)

\* One pass of handle_client's loop with data, followed in the histories rx
\* and tx; MaxLog passes with data are followed.
ReadLogged(c, data, io) ==
    /\ SumTo(Logged, NumConns) < MaxLog
    /\ HandleClientData(c, data, io)
    /\ rx' = IF IsCommand(data)
             THEN rx
             ELSE [rx EXCEPT ![c] = Append(@, [data |-> data, uw |-> io.uw])]
    /\ tx' = [tx EXCEPT ![c] = @ \o UartWrites(trace')]
    /\ UNCHANGED <<fwd, loop, sess>>

NextForward ==
    \/ \E c \in Conns : \E sr \in {[w |-> "Ok", f |-> "Ok"]} :
          HandleClientStart(c, sr) /\ UNCHANGED thrVars
    \/ \E c \in Conns : \E data \in ForwardPayloads :
          \E io \in IoResults(data) : ReadLogged(c, data, io)

SpecForward == InitRegistry /\ [][NextForward]_vars

\* ---------------------------------------------- the threads, lock by lock
\* The handler of connection c is thread c, the forwarding thread of
\* start_forwarding is thread Forwarder. Every step below is what one thread
\* does between two points where it takes or releases a lock; hstate[c] and
\* fwd.pc say where the thread is, and with that which locks it holds and
\* which lock it is about to take.
Forwarder == NoConn
Threads == Conns \cup {Forwarder}

\* TcpClientManager.clients, the Mutex<TcpStream> of a connection,
\* UartManager.uart and UartManager.storage.
RegistryLock == [kind |-> "clients", id |-> 0]
StreamLock(c) == [kind |-> "stream", id |-> c]
UartLock == [kind |-> "uart", id |-> 0]
StorageLock == [kind |-> "storage", id |-> 0]

HandlerHolds_CommandKeepsGuard(c, at) ==
    IF at \in {"add_locked"} THEN {RegistryLock}
    ELSE IF at \in {"reading", "sending", "remove_wait", "remove_count",
                    "cmd_set", "respond"}
    THEN {StreamLock(c)}
    ELSE IF at = "uart_locked" THEN {StreamLock(c), UartLock}
    ELSE IF at = "remove_locked" THEN {StreamLock(c), RegistryLock}
    ELSE IF at = "set_locked" THEN {StreamLock(c), UartLock}
    ELSE IF at = "save_locked" THEN {StreamLock(c), UartLock, StorageLock}
    ELSE {}

HandlerHolds_GuardDroppedBeforeSave(c, at) ==
    IF at \in {"add_locked"} THEN {RegistryLock}
    ELSE IF at \in {"reading", "sending", "remove_wait", "remove_count"}
    THEN {StreamLock(c)}
    ELSE IF at = "uart_locked" THEN {StreamLock(c), UartLock}
    ELSE IF at = "remove_locked" THEN {StreamLock(c), RegistryLock}
    ELSE IF at = "save_locked" THEN {StorageLock}
    ELSE {}

\* The locks the handler of connection c holds where it is: the guard of
\* add_client and remove_client lives for the map update only; the stream
\* guard of the loop lives from `stream_arc.lock()` to the end of the pass
\* (through send_data and remove_client), except that a command drops it
\* first; set_baudrate holds uart_guard until it has saved the rate.
HandlerHolds(c, at) ==
    IF at \in {"add_locked"} THEN {RegistryLock}
    ELSE IF at \in {"reading", "sending", "remove_wait", "remove_count"}
    THEN {StreamLock(c)}
    ELSE IF at = "uart_locked" THEN {StreamLock(c), UartLock}
    ELSE IF at = "remove_locked" THEN {StreamLock(c), RegistryLock}
    ELSE IF at = "set_locked" THEN {UartLock}
    ELSE IF at = "save_locked" THEN {UartLock, StorageLock}
    ELSE {}

\* The lock the handler of connection c takes in its next step.
HandlerWants(c, at) ==
    IF at \in {"spawned", "remove_wait"} THEN {RegistryLock}
    ELSE IF at \in {"added", "welcome_msg", "serving", "respond"} THEN {StreamLock(c)}
    ELSE IF at \in {"sending", "cmd_set"} THEN {UartLock}
    ELSE IF at = "set_locked" /\ storage THEN {StorageLock}
    ELSE {}

FwdHolds_MapLockWhileWriting(pc, cur) ==
    IF pc \in {"count_locked", "snap_locked", "evict_locked", "bc_loop", "bc_wait"}
    THEN {RegistryLock}
    ELSE IF pc = "bc_write" THEN {RegistryLock, StreamLock(cur)}
    ELSE IF pc = "recv_locked" THEN {UartLock}
    ELSE {}

\* The locks the forwarding thread holds where it is: the map lock inside
\* client_count and for broadcast's snapshot and eviction, one stream lock
\* while it writes to that stream, the UART lock inside receive_data.
FwdHolds(pc, cur) ==
    IF pc \in {"count_locked", "snap_locked", "evict_locked"} THEN {RegistryLock}
    ELSE IF pc = "bc_write" THEN {StreamLock(cur)}
    ELSE IF pc = "recv_locked" THEN {UartLock}
    ELSE {}

\* The lock the forwarding thread takes in its next step.
FwdWants(pc, cur) ==
    IF pc \in {"count_wait", "bc", "evict_wait"} THEN {RegistryLock}
    ELSE IF pc = "bc_wait" THEN {StreamLock(cur)}
    ELSE {}

Holds(t) ==
    IF t = Forwarder THEN FwdHolds(fwd.pc, fwd.cur) ELSE HandlerHolds(t, hstate[t])

Wants(t) ==
    IF t = Forwarder THEN FwdWants(fwd.pc, fwd.cur) ELSE HandlerWants(t, hstate[t])

\* Mutex::lock() returns: no thread holds the lock.
Free(l) == \A t \in Threads : l \notin Holds(t)

\* The transport calls a thread is in where it is: stream.read, the
\* write_all + flush of broadcast.
InTransportIO(t) ==
    IF t = Forwarder THEN fwd.pc = "bc_write" ELSE hstate[t] = "reading"

\* The I/O calls a thread has made on the UART, the driver and the store
\* since it took the UART lock it holds.
UartSection(t) ==
    IF t = Forwarder
    THEN IF fwd.pc = "recv_locked" THEN <<"uart.read">> ELSE <<>>
    ELSE IF hstate[t] = "uart_locked" THEN <<"uart.write">>
    ELSE IF hstate[t] = "set_locked" THEN <<"uart_set_baudrate">>
    ELSE IF hstate[t] = "save_locked" THEN <<"uart_set_baudrate", "save_baudrate">>
    ELSE <<>>

\* The handler of connection c goes from one place to the next.
HandlerMove(c, from, to) ==
    /\ hstate[c] = from
    /\ hstate' = [hstate EXCEPT ![c] = to]
    /\ UNCHANGED <<obsVars, fwd, rx, tx, loop>>

\* A step of the handler of connection c that leaves its locals alone.
HandlerStep(c, from, to) ==
    /\ HandlerMove(c, from, to)
    /\ UNCHANGED sess

\* The connections that arrive while the threads are followed: two from
\* different addresses, or one and a later one from the same address.
Arrivals == {{1, 2}, {1, NumAddrs + 1}}

\* Connection c can be the next to arrive.
Arrives(c) == \E cs \in Arrivals : c \in cs /\ \A d \in Conns \ cs : hstate[d] = "new"

\* run's loop spawns the handler of connection c.
T_Spawn(c) ==
    /\ Arrives(c)
    /\ HandlerStep(c, "new", "spawned")
    /\ UNCHANGED <<regVars, nonblocking, uartVars>>

\* add_client: the new stream is put in blocking mode, then the map lock is taken.
T_AddLock(c) ==
    /\ Free(RegistryLock)
    /\ HandlerStep(c, "spawned", "add_locked")
    /\ nonblocking' = [nonblocking EXCEPT ![c] = FALSE]
    /\ UNCHANGED <<regVars, uartVars>>

\* add_client: the entry is inserted or replaced, the map lock released.
T_AddInsert(c) ==
    /\ HandlerStep(c, "add_locked",
                   IF ContainsKey(clients, PeerAddr(c)) THEN "added" ELSE "add_count")
    /\ clients' = MapInsert(clients, PeerAddr(c), c)
    /\ UNCHANGED <<client_count, evicted, nonblocking, uartVars>>

\* add_client: is_new_client, the counter is incremented.
T_AddCount(c) ==
    /\ HandlerStep(c, "add_count", "added")
    /\ client_count' = AddCount(client_count, TRUE)
    /\ UNCHANGED <<clients, evicted, nonblocking, uartVars>>

\* handle_client: the stream is put in non-blocking mode under its lock.
T_Setup(c) ==
    /\ Free(StreamLock(c))
    /\ HandlerStep(c, "added", "welcome")
    /\ nonblocking' = [nonblocking EXCEPT ![c] = TRUE]
    /\ UNCHANGED <<regVars, uartVars>>

WelcomeMsg_DefaultRate(addr, baud) == [addr |-> addr, baud |-> DefaultBaud]

\* format!("Welcome ... Your client ID: {}\r\n ... Current UART baudrate:
\* {}\r\n", peer_addr, get_baudrate()): the two values the text carries.
WelcomeMsg(addr, baud) == [addr |-> addr, baud |-> baud]

\* handle_client: after the 10 ms sleep the welcome message is formatted from
\* peer_addr and get_baudrate(), without a lock.
T_Compose(c) ==
    /\ HandlerMove(c, "welcome", "welcome_msg")
    /\ sess' = [sess EXCEPT ![c].welcome_msg = <<WelcomeMsg(PeerAddr(c), GetBaudrate)>>]
    /\ UNCHANGED <<regVars, nonblocking, uartVars>>

\* handle_client: the welcome message is written under the stream lock; the
\* loop follows.
T_Welcome(c) ==
    /\ Free(StreamLock(c))
    /\ HandlerMove(c, "welcome_msg", "serving")
    /\ sess' = [sess EXCEPT ![c].banner = @ \o sess[c].welcome_msg,
                            ![c].welcome_msg = <<>>]
    /\ UNCHANGED <<regVars, nonblocking, uartVars>>

\* Top of the loop: the stream lock is taken and stream.read called.
T_ReadLock(c) ==
    /\ Free(StreamLock(c))
    /\ HandlerStep(c, "serving", "reading")
    /\ UNCHANGED <<regVars, nonblocking, uartVars>>

\* read returns WouldBlock (non-blocking mode only): the thread sleeps 1 ms
\* with the guard, `continue` drops it.
T_ReadWouldBlock(c) ==
    /\ nonblocking[c]
    /\ HandlerStep(c, "reading", "serving")
    /\ UNCHANGED <<regVars, nonblocking, uartVars>>

\* read returns data that is no command: last_interaction = now, send_data
\* is called with the guard.
T_ReadData(c) ==
    /\ HandlerMove(c, "reading", "sending")
    /\ sess' = [sess EXCEPT ![c].idle = 0]
    /\ UNCHANGED <<regVars, nonblocking, uartVars>>

\* send_data takes the UART lock.
T_UartLock(c) ==
    /\ Free(UartLock)
    /\ HandlerStep(c, "sending", "uart_locked")
    /\ UNCHANGED <<regVars, nonblocking, uartVars>>

\* send_data: uart.write, the lock is released; the pass ends, the stream
\* guard is dropped.
T_UartWrite(c) ==
    /\ HandlerStep(c, "uart_locked", "serving")
    /\ UNCHANGED <<regVars, nonblocking, uartVars>>

\* read returns a command: last_interaction = now, the stream guard is
\* dropped, process_command is called; AT+BAUD=<rate> calls set_baudrate, any
\* other command only answers.
T_ReadCommand(c, sets) ==
    /\ HandlerMove(c, "reading", IF sets THEN "cmd_set" ELSE "respond")
    /\ sess' = [sess EXCEPT ![c].idle = 0]
    /\ UNCHANGED <<regVars, nonblocking, uartVars>>

\* set_baudrate(baud), with baud the rate process_command parsed (b), takes
\* the UART lock, reconfigures the driver and stores the rate in the
\* configuration.
T_SetLock(c, b) ==
    /\ Free(UartLock)
    /\ HandlerMove(c, "cmd_set", "set_locked")
    /\ sess' = [sess EXCEPT ![c].baud = b]
    /\ \E set \in {SetBaudrate(b, "Ok", "Ok")} :
          /\ baudrate' = set.baudrate
          /\ hwBaud' = set.hwBaud
          /\ lastSet' = set.req
    /\ UNCHANGED <<regVars, nonblocking, storage, nvs>>

\* set_baudrate without a store: uart_guard is dropped.
T_SetDone(c) ==
    /\ ~storage
    /\ HandlerStep(c, "set_locked", "respond")
    /\ UNCHANGED <<regVars, nonblocking, uartVars>>

\* set_baudrate with a store: the storage lock is taken, with uart_guard.
T_SaveLock(c) ==
    /\ storage
    /\ Free(StorageLock)
    /\ HandlerStep(c, "set_locked", "save_locked")
    /\ UNCHANGED <<regVars, nonblocking, uartVars>>

\* save_baudrate; both locks are released.
T_Save(c) ==
    /\ HandlerStep(c, "save_locked", "respond")
    /\ nvs' = SetBaudrate(sess[c].baud, "Ok", "Ok").nvs
    /\ UNCHANGED <<regVars, nonblocking, baudrate, hwBaud, storage, lastSet>>

\* send_response under the stream lock, with sr the result of the write.
T_Respond(c, sr) ==
    /\ Free(StreamLock(c))
    /\ HandlerMove(c, "respond", "serving")
    /\ sess' = [sess EXCEPT ![c].baud = NoBaud]
    /\ nonblocking' = [nonblocking EXCEPT ![c] = SendResponse(c, Reply(NoSet, "", <<>>, "Ok"), sr).nonblocking]
    /\ UNCHANGED <<regVars, uartVars>>

\* read returns Ok(0) or a fatal error: remove_client is called with the guard.
T_ReadEnd(c) ==
    /\ HandlerStep(c, "reading", "remove_wait")
    /\ UNCHANGED <<regVars, nonblocking, uartVars>>

\* remove_client takes the map lock.
T_RemoveLock(c) ==
    /\ Free(RegistryLock)
    /\ HandlerStep(c, "remove_wait", "remove_locked")
    /\ UNCHANGED <<regVars, nonblocking, uartVars>>

\* remove_client: the entry of the address is removed, the map lock released.
T_RemoveEntry(c) ==
    /\ HandlerStep(c, "remove_locked",
                   IF ContainsKey(clients, PeerAddr(c)) THEN "remove_count" ELSE "closed")
    /\ clients' = MapRemove(clients, PeerAddr(c))
    /\ UNCHANGED <<client_count, evicted, nonblocking, uartVars>>

\* remove_client: removed, the counter is decremented; the handler returns.
T_RemoveCount(c) ==
    /\ HandlerStep(c, "remove_count", "closed")
    /\ client_count' = RemoveCount(client_count, TRUE)
    /\ UNCHANGED <<clients, evicted, nonblocking, uartVars>>

\* The steps of a handler that concern the registry: from its spawning to the
\* loop, polling, and the end of the connection.
HandlerRegistry(c) ==
    \/ T_Spawn(c)
    \/ T_AddLock(c)
    \/ T_AddInsert(c)
    \/ T_AddCount(c)
    \/ T_Setup(c)
    \/ T_Compose(c)
    \/ T_Welcome(c)
    \/ T_ReadLock(c)
    \/ T_ReadWouldBlock(c)
    \/ T_ReadEnd(c)
    \/ T_RemoveLock(c)
    \/ T_RemoveEntry(c)
    \/ T_RemoveCount(c)

\* The steps of a handler whose read returned data or a command; sr is the
\* result of the write of the response, b the rate a set-speed command asks
\* for.
HandlerData(c, sr, b) ==
    \/ T_ReadData(c)
    \/ T_UartLock(c)
    \/ T_UartWrite(c)
    \/ \E sets \in BOOLEAN : T_ReadCommand(c, sets)
    \/ T_SetLock(c, b)
    \/ T_SetDone(c)
    \/ T_SaveLock(c)
    \/ T_Save(c)
    \/ T_Respond(c, sr)

\* A step of the forwarding thread to the place and locals `to`.
FwdStep(from, to) ==
    /\ fwd.pc \in from
    /\ fwd' = to
    /\ UNCHANGED <<obsVars, connVars, uartVars, rx, tx, loop, sess>>

CountNeedsLock_Never(count) == FALSE

\* client_count(): the map is locked and counted when the counter reads 0.
CountNeedsLock(count) == count = 0

\* client_count(): the counter is loaded; a value that is not 0 is returned.
F_CountLoad ==
    /\ FwdStep({"idle"},
               IF CountNeedsLock(client_count)
               THEN [FwdIdle EXCEPT !.pc = "count_wait"]
               ELSE [FwdIdle EXCEPT !.pc = "counted", !.count = client_count])
    /\ UNCHANGED regVars

\* client_count() takes the map lock.
F_CountLock ==
    /\ Free(RegistryLock)
    /\ FwdStep({"count_wait"}, [FwdIdle EXCEPT !.pc = "count_locked"])
    /\ UNCHANGED regVars

\* client_count(): clients.len() is stored in the counter and returned.
F_CountStore ==
    /\ FwdStep({"count_locked"},
               [FwdIdle EXCEPT !.pc = "counted", !.count = MapLen(clients)])
    /\ client_count' = MapLen(clients)
    /\ UNCHANGED <<clients, evicted>>

\* start_forwarding: no client, the pass ends after a sleep of 50 ms.
F_NoClients ==
    /\ fwd.count = 0
    /\ FwdStep({"counted"}, FwdIdle)
    /\ UNCHANGED regVars

\* receive_data takes the UART lock; the count is checked every tenth pass only.
F_RecvLock ==
    /\ fwd.pc = "counted" => fwd.count # 0
    /\ Free(UartLock)
    /\ FwdStep({"idle", "counted"}, [FwdIdle EXCEPT !.pc = "recv_locked"])
    /\ UNCHANGED regVars

\* receive_data: uart.read returns len bytes, the lock is released; broadcast
\* is called when len > 0.
F_Recv(len) ==
    /\ FwdStep({"recv_locked"},
               IF len = 0 THEN FwdIdle
               ELSE [FwdIdle EXCEPT !.pc = "bc", !.data = Frame(len)])
    /\ UNCHANGED regVars

\* broadcast takes the map lock.
F_SnapLock ==
    /\ Free(RegistryLock)
    /\ FwdStep({"bc"}, [fwd EXCEPT !.pc = "snap_locked"])
    /\ UNCHANGED regVars

\* broadcast: the streams are copied (none: it returns), the lock released.
F_Snapshot ==
    /\ FwdStep({"snap_locked"},
               IF Snapshot(clients) = {} THEN FwdIdle
               ELSE [fwd EXCEPT !.pc = "bc_loop",
                                !.todo = {clients[a] : a \in Snapshot(clients)}])
    /\ UNCHANGED regVars

\* broadcast's loop comes to the stream of connection c.
F_NextStream(c) ==
    /\ c \in fwd.todo
    /\ FwdStep({"bc_loop"},
               [fwd EXCEPT !.pc = "bc_wait", !.cur = c, !.todo = @ \ {c}])
    /\ UNCHANGED regVars

\* broadcast takes the lock of that stream.
F_StreamLock ==
    /\ Free(StreamLock(fwd.cur))
    /\ FwdStep({"bc_wait"}, [fwd EXCEPT !.pc = "bc_write"])
    /\ UNCHANGED regVars

\* broadcast: write_all + flush with result r, the stream lock is released; a
\* stream with a fatal error is put on disconnected_clients.
F_Write(r) ==
    /\ FwdStep({"bc_write"},
               [fwd EXCEPT !.pc = "bc_loop", !.cur = NoConn,
                           !.disc = IF Disconnected(r) THEN @ \cup {fwd.cur} ELSE @])
    /\ UNCHANGED regVars

\* broadcast: end of the loop; it returns when no stream failed.
F_LoopEnd ==
    /\ fwd.todo = {}
    /\ FwdStep({"bc_loop"},
               IF fwd.disc = {} THEN FwdIdle ELSE [fwd EXCEPT !.pc = "evict_wait"])
    /\ UNCHANGED regVars

\* broadcast takes the map lock again.
F_EvictLock ==
    /\ Free(RegistryLock)
    /\ FwdStep({"evict_wait"}, [fwd EXCEPT !.pc = "evict_locked"])
    /\ UNCHANGED regVars

\* broadcast: the addresses of the failed streams are removed, it returns.
F_Evict ==
    /\ FwdStep({"evict_locked"}, FwdIdle)
    /\ clients' = EvictAll(clients, {PeerAddr(c) : c \in fwd.disc})
    /\ evicted' = TRUE
    /\ UNCHANGED client_count

\* start_forwarding asks for the number of clients.
FwdCount ==
    \/ F_CountLoad
    \/ F_CountLock
    \/ F_CountStore
    \/ F_NoClients

\* start_forwarding reads the UART and broadcasts what it read.
FwdBroadcast ==
    \/ F_RecvLock
    \/ \E len \in 0..1 : F_Recv(len)
    \/ F_SnapLock
    \/ F_Snapshot
    \/ \E c \in Conns : F_NextStream(c)
    \/ F_StreamLock
    \/ \E r \in ForwardWrites : F_Write(r)
    \/ F_LoopEnd
    \/ F_EvictLock
    \/ F_Evict

\* The registry and its counter under handlers that come and go while the
\* forwarding thread counts and broadcasts.
NextCounter ==
    \/ \E c \in Conns : HandlerRegistry(c)
    \/ FwdCount
    \/ FwdBroadcast

SpecCounter == InitRegistry /\ [][NextCounter]_vars

\* The bridge was built with a store, or without one.
InitLocks ==
    /\ InitManager
    /\ baudrate = DefaultBaud
    /\ hwBaud = DefaultBaud
    /\ storage \in BOOLEAN
    /\ nvs = NoBaud
    /\ lastSet = NoBaud

\* All four kinds of lock: handlers that forward data and set the rate (to
\* the default one, with AT+BAUD=115200) while the forwarding thread counts
\* and broadcasts.
NextLocks ==
    \/ \E c \in Conns : HandlerRegistry(c)
    \/ \E c \in Conns : HandlerData(c, [w |-> "Ok", f |-> "Ok"], DefaultBaud)
    \/ FwdCount
    \/ FwdBroadcast

SpecLocks == InitLocks /\ [][NextLocks]_vars

\* The rate the client of connection c asks for: each client another one of
\* VALID_BAUDRATES.
VALID_BAUDRATES ==
    <<9600, 19200, 38400, 57600, 115200, 230400, 460800, 921600, 1500000>>

\* Handlers that change the rate concurrently, each to the rate of its own
\* client.
NextSet ==
    \/ \E c \in Conns : HandlerRegistry(c)
    \/ \E c \in Conns : HandlerData(c, [w |-> "Ok", f |-> "Ok"], VALID_BAUDRATES[c])

SpecSet == InitLocks /\ [][NextSet]_vars

\* Time passes while the handler of connection c polls: one more keep-alive
\* interval since client_data.last_interaction.
T_Idle(c) ==
    /\ hstate[c] \in {"serving", "reading"}
    /\ sess[c].idle < MaxIdle
    /\ sess' = [sess EXCEPT ![c].idle = @ + 1]
    /\ UNCHANGED <<obsVars, connVars, regVars, uartVars, fwd, rx, tx, loop>>

\* Handlers whose clients send data, commands or nothing for a long time.
NextIdle ==
    \/ \E c \in Conns : HandlerRegistry(c)
    \/ \E c \in Conns : HandlerData(c, [w |-> "Ok", f |-> "Ok"], DefaultBaud)
    \/ \E c \in Conns : T_Idle(c)

SpecIdle == InitLocks /\ [][NextIdle]_vars

\* A handler whose client sends nothing: it reaches its loop and every read
\* returns WouldBlock.
Polling(c) ==
    \/ T_Spawn(c)
    \/ T_AddLock(c)
    \/ T_AddInsert(c)
    \/ T_AddCount(c)
    \/ T_Setup(c)
    \/ T_Compose(c)
    \/ T_Welcome(c)
    \/ T_ReadLock(c)
    \/ T_ReadWouldBlock(c)

\* Such handlers and the forwarding thread, each of which takes a step when
\* it can take one from some moment on (weak fairness of the scheduler).
NextPoll ==
    \/ \E c \in Conns : Polling(c)
    \/ FwdBroadcast

SpecPoll ==
    /\ InitRegistry
    /\ [][NextPoll]_vars
    /\ \A c \in Conns : WF_vars(Polling(c))
    /\ WF_vars(FwdBroadcast)


\* ------------------------------------------------- the forwarding loop
\* start_forwarding: check_interval, the sleep without clients, the grace
\* period and the cap of the relaxed interval, in iterations and milliseconds.
CheckInterval == 10
NoClientSleepMs == 50
GraceMs == 100
RelaxCapMs == 5

\* The values of UartConfig.poll_interval_ms the loop is followed for: the
\* default, the cap and one above the cap, as long as the grace period.
SlowPollMs == GraceMs
PollIntervals == {DefaultPollMs, RelaxCapMs, SlowPollMs}

Min(a, b) == IF a < b THEN a ELSE b

\* last_data_time.elapsed() after a sleep of ms; followed up to the first
\* value above the grace period.
Elapsed(e, ms) == Min(e + ms, GraceMs + 1)

\* format!("{:?}", e) of the EspError of uart.read.
EspDebugFmt(code) == <<"EspError", code>>

\* What uart.read(buffer, 0) returns: Ok(len) or an EspError.
UartReadResults == {"Ok", "ESP_ERR_TIMEOUT", "ESP_FAIL"}

\* UartManager::receive_data(buffer): Ok(len), Ok(0) for a timeout, Err as -1.
ReceiveData(r, len) ==
    IF r = "Ok" THEN len
    ELSE IF Contains(EspDebugFmt(r), "ESP_ERR_TIMEOUT") THEN 0
    ELSE -1

\* The bytes of the device's n-th kind of burst, len bytes long; the bursts
\* uart.read returns, the empty one when nothing has arrived.
SerialFrame(n, len) == [i \in 1..len |-> 16 * n + i]
SerialFrames == {SerialFrame(n, len) : n \in 1..2, len \in 0..BufLen}

\* uart.read stores the len bytes read at the start of the buffer.
BufferAfterRead(buffer, frame) ==
    [i \in 1..Len(buffer) |-> IF i <= Len(frame) THEN frame[i] ELSE buffer[i]]

BroadcastSlice_WholeBuffer(buffer, len) == buffer

\* &buffer[0..len]
BroadcastSlice(buffer, len) == SubSeq(buffer, 1, len)

\* (config.poll_interval_ms).min(5)
RelaxedInterval(poll_ms) == Min(poll_ms, RelaxCapMs)

\* adaptive_interval = poll_interval, after a read with data.
IntervalAfterData(adaptive, poll_ms) == poll_ms

ChecksCount_EveryIteration(counter) == TRUE

\* check_counter >= check_interval, after the increment.
ChecksCount(counter) == counter >= CheckInterval

\* client_count == 0: the iteration sleeps and `continue`s.
SkipsRead(count) == count = 0

\* The results of write_all + flush the loop's broadcasts meet on a stream.
LoopWrites(len) ==
    {r \in WriteResults(len) :
        r.f = "Ok" /\ r.w \in {"Ok", "WouldBlock", "BrokenPipe"} /\ r.n \in {0, len}}

\* A lock().map_err(..) of the registry: Ok, or Err once the mutex is poisoned.
LockResults == {"Ok", "Err"}

\* start_forwarding(self_arc, client_manager) spawns the thread, which sets
\* up its locals from config.poll_interval_ms.
L_Start(poll_ms) ==
    /\ loop.pc = "off"
    /\ loop' = LoopStart(poll_ms)
    /\ UNCHANGED <<regVars, obsVars, connVars, uartVars, fwd, rx, tx, sess>>

ErrArm_Propagates(call) == "done"

\* Where the loop goes on when a call has failed: `Err(_) => 0` for
\* client_count, which then sleeps and continues; `let _ =` for broadcast and
\* the empty `Err(_)` arm for receive_data, which go on to the sleep.
ErrArm(call) == IF call = "client_count" THEN "top" ELSE "sleep"

\* Top of an iteration: check_counter is incremented; on every
\* CheckInterval-th iteration client_count() is called (cr is the result of
\* its lock), and without clients the iteration sleeps and ends.
L_Top(cr) ==
    /\ loop.pc = "top"
    /\ IF ChecksCount(loop.check_counter + 1)
       THEN /\ IF cr = "Ok"
               THEN ClientCount
               ELSE /\ lastOp' = "count"
                    /\ lastKey' = 0
                    /\ lastArg' = <<>>
                    /\ lastRet' = -1
                    /\ regLocks' = 1
                    /\ wire' = NoWire
                    /\ trace' = <<>>
                    /\ UNCHANGED <<regVars, connVars, uartVars>>
            /\ \E count \in {IF cr = "Ok" THEN lastRet' ELSE 0} :
                 loop' = IF SkipsRead(count)
                         THEN [loop EXCEPT !.check_counter = 0,
                                           !.event = IF cr = "Ok" THEN "no_clients" ELSE "count_err",
                                           !.pc = IF cr = "Ok" THEN "top" ELSE ErrArm("client_count"),
                                           !.elapsed = Elapsed(@, NoClientSleepMs)]
                         ELSE [loop EXCEPT !.check_counter = 0, !.event = "counted",
                                           !.pc = "recv"]
       ELSE /\ cr = "Ok"
            /\ loop' = [loop EXCEPT !.check_counter = @ + 1, !.event = "unchecked",
                                    !.pc = "recv"]
            /\ UNCHANGED <<regVars, obsVars, connVars, uartVars>>
    /\ UNCHANGED <<fwd, rx, tx, sess>>

\* receive_data returns, uart.read having stored frame: data goes to
\* broadcast; without data the interval is relaxed once the grace period is
\* over; an error is ignored.
L_Receive(r, frame) ==
    /\ loop.pc = "recv"
    /\ r # "Ok" => frame = <<>>
    /\ \E got \in {ReceiveData(r, Len(frame))} :
         /\ loop' = IF got > 0
                    THEN [loop EXCEPT !.pc = "bc", !.event = "recv_data",
                                      !.len = got, !.frame = frame,
                                      !.alone = (Snapshot(clients) = {}),
                                      !.buffer = BufferAfterRead(@, frame)]
                    ELSE IF got = 0
                    THEN [loop EXCEPT !.pc = "sleep", !.event = "recv_none",
                                      !.len = 0, !.frame = <<>>,
                                      !.adaptive_interval =
                                          IF loop.elapsed > GraceMs
                                          THEN RelaxedInterval(loop.poll_interval)
                                          ELSE @]
                    ELSE [loop EXCEPT !.pc = ErrArm("receive_data"), !.event = "recv_err"]
         /\ lastRet' = got
    /\ lastOp' = "receive"
    /\ lastKey' = 0
    /\ lastArg' = frame
    /\ regLocks' = 0
    /\ wire' = NoWire
    /\ trace' = <<>>
    /\ UNCHANGED <<regVars, connVars, uartVars, fwd, rx, tx, sess>>

\* broadcast(&buffer[0..len]) is called and its result dropped;
\* last_data_time = now, adaptive_interval = poll_interval.
L_Broadcast(br, o) ==
    /\ loop.pc = "bc"
    /\ \E data \in {BroadcastSlice(loop.buffer, loop.len)} :
         IF br = "Ok"
         THEN BroadcastCall(data, o)
         ELSE /\ o = [a \in Snapshot(clients) |-> [w |-> "Ok", n |-> loop.len, f |-> "Ok"]]
              /\ lastOp' = "broadcast"
              /\ lastKey' = 0
              /\ lastArg' = data
              /\ lastRet' = -1
              /\ regLocks' = 1
              /\ wire' = NoWire
              /\ trace' = <<>>
              /\ UNCHANGED <<regVars, connVars, uartVars>>
    /\ loop' = [loop EXCEPT !.pc = IF br = "Ok" THEN "sleep" ELSE ErrArm("broadcast"),
                            !.event = IF br = "Ok" THEN "bc_ok" ELSE "bc_err",
                            !.elapsed = 0,
                            !.alone = TRUE,
                            !.adaptive_interval = IntervalAfterData(@, loop.poll_interval)]
    /\ UNCHANGED <<fwd, rx, tx, sess>>

\* thread::sleep(adaptive_interval) at the end of the iteration.
L_Sleep ==
    /\ loop.pc = "sleep"
    /\ loop' = [loop EXCEPT !.pc = "top", !.event = "slept",
                            !.elapsed = Elapsed(@, loop.adaptive_interval)]
    /\ lastOp' = "sleep"
    /\ lastKey' = 0
    /\ lastArg' = <<>>
    /\ lastRet' = loop.adaptive_interval
    /\ regLocks' = 0
    /\ wire' = NoWire
    /\ trace' = <<>>
    /\ UNCHANGED <<regVars, connVars, uartVars, fwd, rx, tx, sess>>

\* One step of the forwarding loop, started with one of the given intervals
\* and reading the given bursts.
LoopStep(polls, frames) ==
    \/ \E p \in polls : L_Start(p)
    \/ \E cr \in LockResults : L_Top(cr)
    \/ \E r \in UartReadResults : \E frame \in frames : L_Receive(r, frame)
    \/ \E br \in LockResults :
          \E o \in [Snapshot(clients) -> LoopWrites(loop.len)] : L_Broadcast(br, o)
    \/ L_Sleep

\* The forwarding loop while handlers add and remove the clients of the first
\* MaxHandlers connections.
Forwarding == LoopStep({SlowPollMs}, SerialFrames)

NextLoop ==
    \/ Forwarding
    \/ \E c \in 1..MaxHandlers : AddClient(c) /\ UNCHANGED thrVars
    \/ \E c \in 1..MaxHandlers : RemoveClient(PeerAddr(c)) /\ UNCHANGED thrVars

SpecLoop == InitRegistry /\ [][NextLoop]_vars

\* The forwarding loop while one client comes and goes and the device sends
\* one kind of burst. The thread is scheduled again and again: it takes a
\* step when it can take one from some moment on.
ForwardingAlone == LoopStep({SlowPollMs}, {<<>>, SerialFrame(1, 1)})

NextLoopFair ==
    \/ ForwardingAlone
    \/ AddClient(1) /\ UNCHANGED thrVars
    \/ RemoveClient(PeerAddr(1)) /\ UNCHANGED thrVars

SpecLoopFair == InitRegistry /\ [][NextLoopFair]_vars /\ WF_vars(ForwardingAlone)

\* The forwarding loop millisecond by millisecond, for every interval, while
\* one client comes and goes.
NextInterval ==
    \/ LoopStep(PollIntervals, {<<>>, SerialFrame(1, 1)})
    \/ AddClient(1) /\ UNCHANGED thrVars
    \/ RemoveClient(PeerAddr(1)) /\ UNCHANGED thrVars

SpecInterval == InitRegistry /\ [][NextInterval]_vars

\* ================================================================ claims

\* The connections a broadcast call wrote to: the streams of its snapshot.
InSnapshot(c) == wire[c].kind = "data"

\* C1: in every sequence of add, remove and count calls run one after the
\* other, as long as no broadcast has evicted an entry, the cached counter
\* equals the number of addresses in the map and is never negative; a count()
\* call returns that number; an add of a present address and a remove of an
\* absent one leave it as it was.
C1_CountIsDistinctAddrs ==
    ~evicted =>
        /\ client_count = MapLen(clients)
        /\ client_count >= 0
        /\ (lastOp = "count" => lastRet = MapLen(clients))

\* An address that was present has just been re-added over a second stream (no
\* eviction so far) while another address is registered too.
C1_Witness ==
    /\ ~evicted
    /\ lastOp = "add"
    /\ lastKey = 2
    /\ lastRet = 0
    /\ client_count = 2

\* C2 (as claimed): a registered client that never reads, so that every write
\* to it fails with would-block / timeout, is eventually evicted by the
\* repeated broadcast calls.
C2_StalledClientEventuallyEvicted ==
    \A c \in StalledConns :
        (clients[PeerAddr(c)] = c) ~> (clients[PeerAddr(c)] # c)

\* C2 (amended): no broadcast call evicts a client whose write fails with
\* would-block / timeout, however often that happens, and in every such call
\* each other client of the snapshot whose write does not fail still gets the
\* whole frame and is counted.
C2_StalledClientNeverEvicted ==
    [][\A c \in StalledConns :
          (lastOp' = "broadcast" /\ lastArg' # <<>> /\ clients[PeerAddr(c)] = c) =>
              /\ clients'[PeerAddr(c)] = c
              /\ wire'[c].w \in TransientKinds
              /\ \A a \in Snapshot(clients) \ {PeerAddr(c)} :
                    wire'[clients[a]].kind = "data"
              /\ \A d \in Conns \ {c} :
                    (wire'[d].kind = "data" /\ wire'[d].w = "Ok") =>
                        wire'[d].bytes = lastArg'
              /\ lastRet' = Cardinality({d \in Conns \ {c} :
                                wire'[d].kind = "data" /\ wire'[d].w = "Ok"
                                /\ wire'[d].f \notin FatalKinds})]_vars

\* A broadcast has just failed with a transient error on the stalled client,
\* which is still registered, and delivered the frame to the other client.
C2_Witness ==
    /\ lastOp = "broadcast"
    /\ clients[1] = 1
    /\ wire[1].kind = "data" /\ wire[1].w \in TransientKinds
    /\ wire[2].kind = "data" /\ wire[2].w = "Ok" /\ wire[2].bytes = lastArg
    /\ lastRet = 1

\* C3: when a broadcast call returns, every client of its snapshot whose write
\* or flush failed with would-block or timed-out is still registered, and every
\* client whose write or flush failed with another error has been removed.
C3_TransientKeptFatalRemoved ==
    lastOp = "broadcast" =>
        \A c \in Conns :
            InSnapshot(c) =>
                /\ (wire[c].w \in TransientKinds
                    \/ (wire[c].w = "Ok" /\ wire[c].f \in TransientKinds))
                        => clients[PeerAddr(c)] = c
                /\ (wire[c].w \in FatalKinds
                    \/ (wire[c].w = "Ok" /\ wire[c].f \in FatalKinds))
                        => clients[PeerAddr(c)] = NoConn

\* One call in which a write timed out on a client that stays and the flush hit
\* a reset connection on a client that is removed.
C3_Witness ==
    /\ lastOp = "broadcast"
    /\ wire[1].kind = "data" /\ wire[1].w = "TimedOut" /\ clients[1] = 1
    /\ wire[2].kind = "data" /\ wire[2].w = "Ok" /\ wire[2].f = "ConnectionReset"
    /\ clients[2] = NoConn

\* C4: for a non-empty frame broadcast returns the number of clients of its
\* snapshot on which the write+flush completed (write_all returned Ok and flush
\* reported no fatal error); each of them got exactly the frame, a client whose
\* write failed got at most a proper prefix and is not counted, and with every
\* write and flush succeeding the result is the number of registered clients.
C4_ReturnsClientsWritten ==
    (lastOp = "broadcast" /\ lastArg # <<>>) =>
        LET snap == {c \in Conns : InSnapshot(c)}
            done == {c \in snap : wire[c].w = "Ok" /\ wire[c].f \notin FatalKinds}
        IN /\ lastRet = Cardinality(done)
           /\ \A c \in done : wire[c].bytes = lastArg
           /\ \A c \in snap \ done :
                 wire[c].w # "Ok" => Len(wire[c].bytes) < Len(lastArg)
           /\ (\A c \in snap : wire[c].w = "Ok" /\ wire[c].f = "Ok")
                 => lastRet = Cardinality(snap)

\* Two clients registered, both got the two-byte frame, broadcast returned 2.
C4_Witness ==
    /\ lastOp = "broadcast"
    /\ lastArg = Frame(2)
    /\ lastRet = 2
    /\ wire[1].bytes = Frame(2) /\ wire[2].bytes = Frame(2)
    /\ clients[1] = 1 /\ clients[2] = 2

\* C5: broadcast of the empty frame returns 0 without taking the registry lock,
\* broadcast of a non-empty frame on an empty registry returns 0 after taking it
\* once; in both cases nothing is written to any stream and the map and the
\* counter are left as they were.
C5_EmptyBroadcastIsNoOp ==
    [][(lastOp' = "broadcast" /\ (lastArg' = <<>> \/ Snapshot(clients) = {})) =>
          /\ lastRet' = 0
          /\ regLocks' = (IF lastArg' = <<>> THEN 0 ELSE 1)
          /\ wire' = NoWire
          /\ clients' = clients
          /\ client_count' = client_count
          /\ evicted' = evicted]_vars

\* The empty frame was broadcast while two clients were registered.
C5_Witness ==
    /\ lastOp = "broadcast"
    /\ lastArg = <<>>
    /\ lastRet = 0
    /\ regLocks = 0
    /\ MapLen(clients) = 2

\* "AT+", the marker of a command frame.
Marker == <<65, 84, 43>>

\* C6: is_command(bytes) returns true if and only if bytes has at least three
\* bytes and the first three are 'A', 'T', '+'; so it returns false for the
\* empty input, for every input of one or two bytes and for every longer
\* input that starts differently.
C6_IsCommandIffMarker ==
    lastOp = "is_command" =>
        /\ lastRet \in {0, 1}
        /\ (lastRet = 1) <=> (Len(lastArg) >= 3 /\ SubSeq(lastArg, 1, 3) = Marker)
        /\ (Len(lastArg) < 3 => lastRet = 0)

\* is_command returned true for "AT+B".
C6_Witness ==
    /\ lastOp = "is_command"
    /\ lastArg = <<65, 84, 43, 66>>
    /\ lastRet = 1

\* The positions of the calls named ev in what the last operation did.
EventsOf(ev) == {i \in 1..Len(trace) : trace[i].ev = ev}

\* C7: after every read of N > 0 bytes: when is_command holds for the payload,
\* process_command was called with it and nothing was written to the UART;
\* otherwise there was exactly one UART write, of exactly those N bytes, and
\* process_command was not called.
C7_CommandOrSerial ==
    (lastOp = "read" /\ Len(lastArg) > 0) =>
        IF IsCommand(lastArg)
        THEN /\ EventsOf("uart_write") = {}
             /\ EventsOf("process_command") = {1}
             /\ trace[1].bytes = lastArg
        ELSE /\ EventsOf("process_command") = {}
             /\ Len(trace) = 1
             /\ trace[1].ev = "uart_write"
             /\ trace[1].bytes = lastArg

\* " AT+HELP", which starts with a space, went to the UART as it was read.
C7_Witness ==
    /\ lastOp = "read"
    /\ lastArg = <<32, 65, 84, 43, 72, 69, 76, 80>>
    /\ Len(trace) = 1
    /\ trace[1] = Event("uart_write", 0, lastArg)

\* C8: every command frame read from a client, whatever it holds, is answered
\* by exactly one response; the response is written to the stream of the
\* connection it was read from and to no other stream, and the registry, hence
\* broadcast, is not involved.
C8_OneResponseToSender ==
    (lastOp = "read" /\ IsCommand(lastArg)) =>
        /\ Cardinality(EventsOf("send_response")) = 1
        /\ \A i \in EventsOf("send_response") : trace[i].num = lastKey
        /\ wire[lastKey].kind = "response"
        /\ wire[lastKey].tag # ""
        /\ \A d \in Conns \ {lastKey} : wire[d] = NoIO
        /\ regLocks = 0

\* The second client sent a command that is not UTF-8 while the first client
\* was being served, and was told so.
C8_Witness ==
    /\ lastOp = "read"
    /\ lastKey = 2
    /\ lastArg = <<65, 84, 43, 255>>
    /\ hstate[1] = "serving"
    /\ wire[2].tag = "ERROR: Invalid command format (not UTF-8)"
    /\ wire[2].w = "Ok"

\* The two supported rates the clients ask for, as they are written in text.
RateText == (9600 :> <<57, 54, 48, 48>>) @@ (115200 :> <<49, 49, 53, 50, 48, 48>>)

\* C9: after AT+BAUD=R with R a supported rate, the configured rate is R and
\* the response written to that client is "OK: Baudrate changed to R"; every
\* AT+BAUD? read after a successful change, from any client, is answered with
\* "Current baudrate: R" where R is the rate of the last successful change,
\* and the configured rate is that rate.
C9_SetThenQuery ==
    /\ \A R \in DOMAIN RateText :
          (lastOp = "read" /\ lastArg = CmdSetBaud \o RateText[R]) =>
              /\ baudrate = R
              /\ lastSet = R
              /\ wire[lastKey].kind = "response"
              /\ wire[lastKey].tag = "OK: Baudrate changed to "
              /\ wire[lastKey].bytes = RateText[R]
    /\ (lastOp = "read" /\ lastArg = CmdQueryBaud /\ lastSet # NoBaud) =>
          /\ wire[lastKey].kind = "response"
          /\ wire[lastKey].tag = "Current baudrate: "
          /\ wire[lastKey].bytes = RateText[lastSet]
    /\ (lastSet # NoBaud => baudrate = lastSet)

\* The bridge started at the default rate, the rate was changed to 9600, and
\* the query of the second client was answered with "Current baudrate: 9600".
C9_Witness ==
    /\ lastOp = "read"
    /\ lastKey = 2
    /\ lastArg = CmdQueryBaud
    /\ lastSet = 9600
    /\ nvs # 9600
    /\ wire[2].bytes = <<57, 54, 48, 48>>
    /\ wire[2].w = "Ok" /\ wire[2].f = "Ok"

\* The rates set_baudrate accepts.
EnumeratedRates ==
    {9600, 19200, 38400, 57600, 115200, 230400, 460800, 921600, 1500000}

\* C10: a set_baudrate call with a rate outside the enumerated set returns an
\* error, calls neither the UART driver nor the store, and leaves the
\* configured rate, the hardware rate and the stored rate as they were.
C10_InvalidRateRejected ==
    [][\A i \in 1..Len(trace') :
          (trace'[i].ev = "set_baudrate" /\ trace'[i].num \notin EnumeratedRates) =>
              /\ trace'[i + 1].ev = "set_baudrate: Err"
              /\ \A j \in 1..Len(trace') :
                    trace'[j].ev \notin {"uart_set_baudrate", "save_baudrate"}
              /\ baudrate' = baudrate
              /\ hwBaud' = hwBaud
              /\ nvs' = nvs]_vars

\* After the rate was changed to 9600 and stored, AT+BAUD=12345 was refused.
C10_Witness ==
    /\ lastOp = "read"
    /\ lastArg = SetFrame(12345)
    /\ Len(trace) = 4
    /\ trace[2] = Event("set_baudrate", 12345, <<>>)
    /\ trace[3].ev = "set_baudrate: Err"
    /\ wire[lastKey].tag = "ERROR: Failed to set baudrate: UART error: Invalid baudrate: "
    /\ baudrate = 9600 /\ hwBaud = 9600 /\ nvs = 9600 /\ lastSet = 9600

\* The rate of the set_baudrate call the last operation made.
SetRate(tr) == tr[1].num

\* C11: set_baudrate(R) with R in the enumerated set returns Ok and leaves R
\* as the configured rate, whether uart_set_baudrate succeeded or failed, and
\* a get_baudrate() that comes next returns R.
C11_SetThenGet ==
    [][/\ (lastOp' = "set_baudrate" /\ SetRate(trace') \in EnumeratedRates) =>
             /\ lastRet' = 0
             /\ baudrate' = SetRate(trace')
       /\ (/\ lastOp = "set_baudrate"
           /\ SetRate(trace) \in EnumeratedRates
           /\ lastOp' = "get_baudrate") =>
             lastRet' = SetRate(trace)]_vars

\* get_baudrate returned 1500000 although the hardware still runs at the
\* default rate: the hardware apply failed and the value was kept.
C11_Witness ==
    /\ lastOp = "get_baudrate"
    /\ lastRet = 1500000
    /\ lastSet = 1500000
    /\ hwBaud = DefaultBaud

\* What the last operation called.
Called(ev) == \E i \in 1..Len(trace) : trace[i].ev = ev

\* C12: set_baudrate(R) with R in the enumerated set returns Ok and R is the
\* configured rate also when there is no store, when the store's lock cannot
\* be taken and when save_baudrate fails.
C12_SetSucceedsWithoutStore ==
    (/\ lastOp = "set_baudrate"
     /\ SetRate(trace) \in EnumeratedRates
     /\ (~storage \/ Called("storage.lock: Err") \/ Called("save_baudrate: Err"))) =>
        /\ lastRet = 0
        /\ baudrate = SetRate(trace)
        /\ Called("set_baudrate: Ok")

\* The store's lock could not be taken; 9600 is configured but not stored.
C12_Witness ==
    /\ lastOp = "set_baudrate"
    /\ storage
    /\ Called("storage.lock: Err")
    /\ ~Called("save_baudrate")
    /\ lastRet = 0
    /\ baudrate = 9600
    /\ nvs # 9600

\* C13: a set_baudrate(R) that returns Ok with the store present and its write
\* succeeding leaves R stored; a bridge built afterwards whose store opens and
\* reads starts with the stored rate; the stored value is read by new only and
\* changed by a set_baudrate that returns Ok only.
C13_StoredRateSurvivesRestart ==
    [][/\ (/\ lastOp' = "set_baudrate"
           /\ lastRet' = 0
           /\ \E i \in 1..Len(trace') : trace'[i].ev = "save_baudrate"
           /\ \A i \in 1..Len(trace') : trace'[i].ev # "save_baudrate: Err") =>
             nvs' = SetRate(trace')
       /\ (/\ lastOp' = "new"
           /\ storage'
           /\ \A i \in 1..Len(trace') : trace'[i].ev # "read_baudrate: Err"
           /\ nvs \in EnumeratedRates) =>
             /\ baudrate' = nvs
             /\ hwBaud' = nvs
       /\ (\E i \in 1..Len(trace') : trace'[i].ev = "read_baudrate") =>
             lastOp' = "new"
       /\ (nvs' # nvs) =>
             /\ lastOp' = "set_baudrate"
             /\ lastRet' = 0
             /\ nvs' = SetRate(trace')]_vars

\* A restarted bridge runs at 19200, a rate only a set_baudrate call can have
\* stored.
C13_Witness ==
    /\ lastOp = "new"
    /\ storage
    /\ nvs = 19200
    /\ baudrate = 19200
    /\ hwBaud = 19200

\* C14 (as claimed): whenever a handler has read a command and answered it,
\* whatever the write and the flush of the response returned, the connection's
\* stream is in non-blocking mode when the handler reads again.
C14_NonBlockingRestored ==
    (lastOp = "read" /\ IsCommand(lastArg)) => nonblocking[lastKey]

\* The commands a client is told are wrong, each with the start of the report
\* it gets: not UTF-8, unknown ("AT+BOGUS"), a rate that does not parse (none,
\* "96x", more than u32::MAX) and a rate that is not supported (12345).
ErrorReport ==
    (<<65, 84, 43, 255>> :> "ERROR: Invalid command format (not UTF-8)")
    @@ (<<65, 84, 43, 66, 79, 71, 85, 83>> :> "ERROR: Unknown command: ")
    @@ (CmdSetBaud :> "ERROR: Invalid baudrate value: ")
    @@ (CmdSetBaud \o <<57, 54, 120>> :> "ERROR: Invalid baudrate value: ")
    @@ (CmdSetBaud \o <<57, 57, 57, 57, 57, 57, 57, 57, 57, 57, 57>>
            :> "ERROR: Invalid baudrate value: ")
    @@ (CmdSetBaud \o <<49, 50, 51, 52, 53>>
            :> "ERROR: Failed to set baudrate: UART error: Invalid baudrate: ")

\* C16: a read that returns one of the wrong commands is answered with the
\* error report on the sender's stream, changes neither the registry nor the
\* counter, and leaves the handler in its read loop.
C16_ErrorKeepsConnection ==
    [][(lastOp' = "read" /\ lastArg' \in DOMAIN ErrorReport) =>
          /\ wire'[lastKey'].kind = "response"
          /\ wire'[lastKey'].tag = ErrorReport[lastArg']
          /\ clients' = clients
          /\ client_count' = client_count
          /\ hstate'[lastKey'] = "serving"
          /\ \A d \in Conns \ {lastKey'} : hstate'[d] = hstate[d]]_vars

\* The first client sent AT+BOGUS, was told so, and is registered and served.
C16_Witness ==
    /\ lastOp = "read"
    /\ lastKey = 1
    /\ lastArg = <<65, 84, 43, 66, 79, 71, 85, 83>>
    /\ wire[1].tag = "ERROR: Unknown command: "
    /\ wire[1].bytes = lastArg
    /\ wire[1].w = "Ok"
    /\ clients[PeerAddr(1)] = 1
    /\ hstate[1] = "serving"

\* The handler of connection c is in its read loop.
InLoop(h, c) == h[c] \in {"serving", "reading"}

\* C15: a handler in its read loop terminates exactly in a step in which its
\* read returns Ok(0) or an error that is neither would-block nor timed-out,
\* and in that step it removes its address from the registry; a would-block or
\* timed-out read and a read of N > 0 bytes leave the registry as it was and
\* the handler in the loop.
C15_HandlerEndsOnEofOrError ==
    [][\A c \in Conns : InLoop(hstate, c) =>
          /\ (~InLoop(hstate', c)) <=>
                /\ lastOp' = "read" /\ lastKey' = c /\ lastArg' = <<>>
                /\ trace'[1].ev \in {"read: Eof", "read: BrokenPipe",
                                     "read: ConnectionReset"}
          /\ (~InLoop(hstate', c)) =>
                /\ hstate'[c] = (IF trace'[1].ev = "read: Eof"
                                 THEN "closed" ELSE "errored")
                /\ ~ContainsKey(clients', PeerAddr(c))
                /\ regLocks' = 1
          /\ (/\ lastOp' = "read" /\ lastKey' = c
              /\ \/ lastArg' # <<>>
                 \/ trace'[1].ev \in {"read: WouldBlock", "read: TimedOut"}) =>
                /\ hstate'[c] = "serving"
                /\ clients' = clients
                /\ client_count' = client_count]_vars

\* The read of the first client timed out; it is registered and served.
C15_Witness ==
    /\ lastOp = "read"
    /\ lastKey = 1
    /\ Len(trace) = 1
    /\ trace[1].ev = "read: TimedOut"
    /\ hstate[1] = "serving"
    /\ clients[PeerAddr(1)] = 1

\* C18: whatever the handlers do, the accept loop can take the next
\* connection; taking it only spawns its handler, and a failed accept changes
\* nothing, so that the loop goes on.
C18_AcceptNeverWaits ==
    /\ [](\A c \in Conns :
            (/\ c <= MaxHandlers
             /\ hstate[c] = "new"
             /\ \A d \in Conns : d < c => hstate[d] # "new") => ENABLED Accept(c))
    /\ [][/\ (lastOp' = "spawn") =>
                /\ hstate[lastKey'] = "new"
                /\ hstate' = [hstate EXCEPT ![lastKey'] = "spawned"]
                /\ UNCHANGED <<regVars, nonblocking, uartVars>>
          /\ (lastOp' = "accept_err") =>
                UNCHANGED <<regVars, connVars, uartVars>>]_vars

\* The second connection was accepted while the handler of the first waits in
\* a blocking read.
C18_Witness ==
    /\ lastOp = "spawn"
    /\ lastKey = 2
    /\ hstate[1] = "reading"
    /\ hstate[2] = "spawned"

\* C19 (as claimed): no handler, whatever happened to it, keeps the forwarding
\* loop from writing to the other registered clients: whenever two clients are
\* registered, broadcast can take the lock of every registered stream.
C19_NoHandlerStallsForwarding ==
    \A c \in Conns :
        (/\ clients[PeerAddr(c)] = c
         /\ \E a \in Snapshot(clients) : a # PeerAddr(c)) => LockFree(c)

\* C20: the registry holds no entry for the stream of a handler that has
\* terminated, be it by Ok(0), by a read error or before it registered; this
\* holds at once, hence also after each broadcast call that follows.
C20_NoEntryForEndedHandler ==
    \A c \in Conns :
        hstate[c] \in {"closed", "errored"} => clients[PeerAddr(c)] # c

\* The first client has closed and is gone from the registry; a broadcast
\* that followed wrote to the second client only.
C20_Witness ==
    /\ hstate[1] = "closed"
    /\ lastOp = "broadcast"
    /\ wire[1] = NoIO
    /\ wire[2].kind = "data"
    /\ ~ContainsKey(clients, PeerAddr(1))

\* The binds the last run() tried: the positions of its bind calls.
Tried == {i \in 1..Len(trace) : trace[i].ev = "bind"}

\* C17 (as claimed): run() tries at most three binds: the configured address
\* and port; after a failure 192.168.4.1 with the same port; after a second
\* failure the next higher port; it stops at the first bind that succeeds and
\* listens there, and it returns the error exactly when three binds failed.
C17_BindFallback ==
    lastOp = "run" =>
        /\ Tried \subseteq {1, 3, 5}
        /\ 1 \in Tried
        /\ trace[1].num = lastKey /\ trace[1].bytes = lastArg
        /\ (3 \in Tried) <=> (trace[2].ev = "bind: Err")
        /\ (3 \in Tried) =>
              /\ trace[3].num = lastKey /\ trace[3].bytes = <<192, 168, 4, 1>>
              /\ (5 \in Tried) <=> (trace[4].ev = "bind: Err")
        /\ (5 \in Tried) => trace[5].num = lastKey + 1
        /\ (lastRet = -1) <=> (5 \in Tried /\ trace[6].ev = "bind: Err")
        /\ (lastRet # -1) =>
              /\ trace[Len(trace)].ev = "bind: Ok"
              /\ lastRet = trace[Len(trace)].num

\* C23: add(addr, t2) while addr is registered with another transport t1
\* replaces the entry: addr then holds t2, every other entry and the number of
\* entries are as before; and a broadcast writes only to the transports the
\* map holds when it is called, so to t2 and never to the replaced t1.
C23_ReconnectReplaces ==
    [][/\ (/\ lastOp' = "add"
           /\ ContainsKey(clients, PeerAddr(lastKey'))
           /\ clients[PeerAddr(lastKey')] # lastKey')
          => /\ clients'[PeerAddr(lastKey')] = lastKey'
             /\ \A b \in Addrs \ {PeerAddr(lastKey')} : clients'[b] = clients[b]
             /\ MapLen(clients') = MapLen(clients)
             /\ lastRet' = 0
       /\ lastOp' = "broadcast"
          => \A c \in Conns : wire'[c] # NoIO => clients[PeerAddr(c)] = c
      ]_vars

\* A broadcast has written to connection 3, which replaced connection 1 under
\* their common address, and not to connection 1.
C23_Witness ==
    /\ lastOp = "broadcast"
    /\ PeerAddr(3) = PeerAddr(1)
    /\ client_count = 1
    /\ wire[3] # NoIO
    /\ wire[1] = NoIO

\* C26 (as claimed): once a broadcast call has evicted a client, count()
\* returns the number of entries in the map.
C26_CountAfterEviction ==
    [][(lastOp' = "count" /\ evicted) => lastRet' = MapLen(clients)]_vars

\* The payloads of the reads of connection c that were no commands, in the
\* order they were read.
DataRead(c) == [i \in 1..Len(rx[c]) |-> rx[c][i].data]

\* C21: for every connection, as long as no UART write failed, the payloads
\* written to the UART for it are exactly the payloads of its reads that were
\* no commands, in the order they were read, one write per read.
C21_SerialWritesFollowReads ==
    \A c \in Conns :
        (\A i \in 1..Len(rx[c]) : rx[c][i].uw = "Ok") => tx[c] = DataRead(c)

\* Connection 1 sent "AT", a query and "hello" while connection 2 sent "hello":
\* the UART got "AT", "hello" for connection 1.
C21_Witness ==
    /\ tx[1] = << <<65, 84>>, <<104, 101, 108, 108, 111>> >>
    /\ tx[2] = << <<104, 101, 108, 108, 111>> >>
    /\ rx[1][1].uw = "Ok" /\ rx[1][2].uw = "Ok"
    /\ lastOp = "read"
    /\ lastKey = 1

\* count() as a caller sees it: the counter, or the size of the map when the
\* counter reads 0.
CountValue == IF client_count = 0 THEN MapLen(clients) ELSE client_count

\* No thread is inside add_client, remove_client or client_count.
Quiescent ==
    /\ \A c \in Conns :
          hstate[c] \notin {"add_locked", "add_count", "remove_wait",
                            "remove_locked", "remove_count"}
    /\ fwd.pc \notin {"count_wait", "count_locked"}

\* C25 (as claimed): whatever the interleaving of the steps of add, remove
\* and count() (no broadcast has evicted a client), the counter is never
\* below zero, and when all calls have returned count() is the number of
\* entries of the map.
C25_CounterFollowsMap ==
    ~evicted =>
        /\ client_count >= 0
        /\ Quiescent => CountValue = MapLen(clients)

\* C22: a count() call returns a value that is not zero when the map holds
\* an entry while it runs: the call that loads a counter that is not zero
\* returns it, the call that loads zero returns the size of the map, taken
\* under the lock.
C22_NonEmptyMapCountsNonZero ==
    [][(/\ fwd.pc \in {"idle", "count_locked"}
        /\ fwd'.pc = "counted"
        /\ MapLen(clients) # 0)
       => fwd'.count # 0]_vars

\* count() has returned 1 from the map while the counter of the only client,
\* whose add_client has not yet incremented it, read zero.
C22_Witness ==
    /\ fwd.pc = "counted"
    /\ fwd.count = 1
    /\ client_count = 1
    /\ hstate[1] = "add_count"
    /\ hstate[2] = "new" /\ hstate[3] = "new"

\* C24 (as claimed): an entry leaves the map only in the remove_client of the
\* handler whose transport the entry holds, or in the eviction of a broadcast
\* call for which the write to that transport failed.
C24_OnlyOwnEntryRemoved ==
    [][\A a \in Addrs :
          (clients[a] # NoConn /\ clients'[a] = NoConn)
          => \/ /\ hstate[clients[a]] = "remove_locked"
                /\ hstate'[clients[a]] # "remove_locked"
             \/ /\ fwd.pc = "evict_locked"
                /\ clients[a] \in fwd.disc]_vars

\* A thread can take a step, whatever the other threads do.
CanStep(t) ==
    IF t = Forwarder
    THEN ENABLED (FwdCount \/ FwdBroadcast)
    ELSE ENABLED HandlerRegistry(t)

\* C27: a thread that holds the map lock is in no transport read, write or
\* flush and is not about to take a stream lock, and its next step, which
\* releases the map lock, waits for nothing; so the map lock is never held
\* while a broadcast writes or a handler reads.
C27_NoIOUnderMapLock ==
    \A t \in Threads :
        RegistryLock \in Holds(t) =>
            /\ ~InTransportIO(t)
            /\ \A c \in Conns : StreamLock(c) \notin Wants(t)
            /\ CanStep(t)

\* add_client of connection 2 holds the map lock while broadcast writes to
\* the stream of connection 1, whose handler waits for that stream.
C27_Witness ==
    /\ RegistryLock \in Holds(2)
    /\ hstate[2] = "add_locked"
    /\ fwd.pc = "bc_write"
    /\ fwd.cur = 1
    /\ hstate[1] = "serving"

\* An order of the locks: stream locks first, then the map lock and the UART
\* lock, then the storage lock.
LockRank(l) ==
    IF l.kind = "stream" THEN 0
    ELSE IF l.kind \in {"clients", "uart"} THEN 1
    ELSE 2

\* Thread t is about to take a lock that thread u holds.
WaitsFor(t, u) == \E l \in Wants(t) : l \in Holds(u)

\* C28: a thread takes a lock while it holds another only in the order
\* stream lock, then map lock or UART lock, then storage lock, which has no
\* cycle; and in no reachable state is there a set of threads each of which
\* waits for a lock that a thread of the set holds.
C28_NoDeadlock ==
    /\ \A t \in Threads : \A l \in Holds(t) : \A w \in Wants(t) :
          LockRank(l) < LockRank(w)
    /\ \A D \in SUBSET Threads :
          D # {} => \E t \in D : \A u \in D : ~WaitsFor(t, u)

\* broadcast waits for the stream of connection 1, whose handler holds it and
\* waits for the UART, which the handler of connection 2 holds in set_baudrate
\* while it waits for nothing: a chain, no cycle.
C28_Witness ==
    /\ WaitsFor(Forwarder, 1)
    /\ WaitsFor(1, 2)
    /\ hstate[1] = "sending"
    /\ hstate[2] = "save_locked"

\* C30 (as claimed): every thread that holds the UART lock has made at most
\* one call among uart.read, uart.write, uart_set_baudrate and save_baudrate
\* since it took the lock.
C30_SingleCallUartSections ==
    \A t \in Threads : Len(UartSection(t)) <= 1

\* C29 (as claimed): under weak fairness of the threads, a broadcast that
\* waits for the stream lock of a client whose handler polls gets the lock.
C29_BroadcastGetsStreamLock ==
    (fwd.pc = "bc_wait") ~> (fwd.pc = "bc_write")

\* C31: a receive of the forwarding loop that returns len > 0 is followed, as
\* the loop's next step and before its next receive, by one broadcast call
\* with exactly the len bytes read, after which the poll interval is the
\* configured one; the loop calls broadcast at no other point.
C31_BroadcastAfterRead ==
    [][loop' # loop =>
         /\ (loop.pc = "recv" /\ lastRet' > 0) =>
               (loop'.pc = "bc" /\ loop'.frame = lastArg' /\ Len(lastArg') = lastRet')
         /\ loop.pc = "bc" =>
               /\ lastOp' = "broadcast"
               /\ lastArg' = loop.frame
               /\ loop'.pc = "sleep"
               /\ loop'.adaptive_interval = loop.poll_interval
         /\ lastOp' = "broadcast" => loop.pc = "bc"
         /\ loop'.pc = "recv" => loop.pc = "top"]_vars

\* A one-byte burst was broadcast to a client while the buffer still holds the
\* second byte of an earlier burst.
C31_Witness ==
    /\ lastOp = "broadcast"
    /\ lastArg = SerialFrame(2, 1)
    /\ loop.buffer[2] = SerialFrame(1, 2)[2]
    /\ \E c \in Conns : wire[c].kind = "data" /\ wire[c].w = "Ok"
    /\ loop.adaptive_interval = loop.poll_interval

\* The calls of the loop that can fail.
LoopErrors == {"recv_err", "bc_err", "count_err"}

\* C32: the forwarding loop never terminates: it can always take a step, and
\* after a receive error, a broadcast error or a failed count() it goes on to
\* another receive, which it performs.
C32_LoopGoesOn ==
    /\ [](loop.pc # "off" => ENABLED ForwardingAlone)
    /\ (loop.event \in LoopErrors) ~> (loop.pc = "recv")
    /\ (loop.pc = "recv") ~> (lastOp = "receive" /\ loop.pc # "recv")

\* count() has just failed while a client is registered.
C32_Witness ==
    /\ loop.event = "count_err"
    /\ loop.pc = "top"
    /\ Snapshot(clients) # {}

\* C33: the loop calls client_count() on every CheckInterval-th iteration only;
\* when the count it gets is zero, or the call fails, the iteration sleeps the
\* longer interval and ends without a serial read; every other iteration
\* performs one non-blocking serial read.
C33_CountEveryTenth ==
    [][loop' # loop /\ loop.pc \in {"top", "recv"} =>
         IF loop.pc = "recv"
         THEN lastOp' = "receive" /\ loop'.pc \in {"bc", "sleep"}
         ELSE IF loop.check_counter + 1 = CheckInterval
         THEN /\ lastOp' = "count"
              /\ loop'.check_counter = 0
              /\ IF lastRet' <= 0
                 THEN /\ loop'.pc = "top"
                      /\ loop'.elapsed = Elapsed(loop.elapsed, NoClientSleepMs)
                 ELSE /\ loop'.pc = "recv"
                      /\ loop'.elapsed = loop.elapsed
         ELSE /\ loop.check_counter + 1 < CheckInterval
              /\ loop'.check_counter = loop.check_counter + 1
              /\ UNCHANGED <<lastOp, lastRet, client_count>>
              /\ loop'.pc = "recv"]_vars

\* The tenth iteration found no client and slept without reading, although a
\* burst had been read and dropped before.
C33_Witness ==
    /\ lastOp = "count"
    /\ lastRet = 0
    /\ loop.event = "no_clients"
    /\ loop.pc = "top"
    /\ loop.check_counter = 0
    /\ loop.elapsed > NoClientSleepMs
    /\ loop.buffer[1] # 0

\* C34 (as claimed): the bytes of a read that returned while the registry was
\* empty reach no client, whoever registers afterwards.
C34_ReadWithoutClientsDropped ==
    [][loop.pc = "bc" /\ loop.alone /\ loop' # loop => wire' = NoWire]_vars

\* C34 (amended): a broadcast call writes the bytes of the read before it, and
\* nothing else, to the streams registered when it takes its snapshot; when
\* the registry is empty then, the bytes reach no client, and no later step of
\* the loop writes them: each broadcast sends the bytes of its own read only.
C34_DroppedAtEmptySnapshot ==
    [][loop' # loop =>
         /\ loop.pc # "bc" => wire' = NoWire
         /\ loop.pc = "bc" =>
               /\ Snapshot(clients) = {} => (wire' = NoWire /\ lastRet' <= 0)
               /\ \A c \in Conns :
                     wire'[c].kind # "none" =>
                        /\ clients[PeerAddr(c)] = c
                        /\ wire'[c].kind = "data"
                        /\ wire'[c].bytes \in {<<>>, loop.frame}
                        /\ wire'[c].w = "Ok" => wire'[c].bytes = loop.frame]_vars

\* A burst was read and broadcast's snapshot found the registry empty: the
\* call returned Ok(0) and wrote to no stream.
C34_Witness ==
    /\ lastOp = "broadcast"
    /\ loop.event = "bc_ok"
    /\ lastArg = SerialFrame(1, 2)
    /\ lastRet = 0
    /\ Snapshot(clients) = {}
    /\ wire = NoWire

\* C35: once the loop runs, the adaptive poll interval is at least the
\* configured minimum and at most RelaxCapMs, whatever minimum is configured.
C35_IntervalWithinBounds ==
    loop.pc # "off" =>
        /\ loop.adaptive_interval >= loop.poll_interval
        /\ loop.adaptive_interval <= RelaxCapMs

\* A command that asks for no change of the rate: it is no UTF-8, or it does
\* not start with "AT+BAUD=" (a query, help, anything else), or what follows
\* "AT+BAUD=" is no unsigned integer.
AsksNoChange(data) ==
    \/ ~Utf8Valid(data)
    \/ ~StartsWith(Trim(data), CmdSetBaud)
    \/ ~ParseU32(SubSeq(Trim(data), Len(CmdSetBaud) + 1, Len(Trim(data)))).ok

\* C40: processing a query, a help command, an unknown command, a command
\* that is no UTF-8 or a set-speed command whose value does not parse leaves
\* the configured rate, the hardware rate and the stored rate as they were,
\* calls neither set_baudrate nor the driver nor the store, and writes nothing
\* to the UART.
C40_OtherCommandsChangeNothing ==
    [][(lastOp' = "read" /\ IsCommand(lastArg') /\ AsksNoChange(lastArg')) =>
          /\ UNCHANGED <<baudrate, hwBaud, nvs, storage, lastSet>>
          /\ \A i \in 1..Len(trace') :
                trace'[i].ev \in {"process_command", "send_response"}]_vars

\* "AT+BAUD=96x" was answered with an error after the rate had been set to
\* 9600 and stored.
C40_Witness ==
    /\ lastOp = "read"
    /\ lastArg = CmdSetBaud \o <<57, 54, 120>>
    /\ baudrate = 9600
    /\ hwBaud = 9600
    /\ nvs = 9600
    /\ wire[lastKey].tag = "ERROR: Invalid baudrate value: "

\* C39: with a default rate that is a supported rate, the configured rate,
\* which get_baudrate returns, is a supported rate in every state: after
\* construction over any stored value, after every set_baudrate call and
\* after every restart.
C39_SpeedAlwaysSupported ==
    DefaultBaud \in ValidBaudrates =>
        /\ GetBaudrate \in ValidBaudrates
        /\ lastOp = "get_baudrate" => lastRet \in ValidBaudrates
        /\ lastSet # NoBaud => lastSet \in ValidBaudrates

\* The bridge was restarted over a store that holds 4800, which is no
\* supported rate, and runs at the default rate.
C39_Witness ==
    /\ lastOp = "new"
    /\ storage
    /\ nvs = 4800
    /\ trace = <<Event("read_baudrate", 4800, <<>>)>>
    /\ GetBaudrate = DefaultBaud

\* Claim C38: set_baudrate calls of several handlers with supported rates,
\* whose driver and store calls succeed, are serialized by the UART lock: at
\* most one call is between its lock() and its return, and once no call is in
\* progress the configured rate, the rate of the driver and, with a store,
\* the stored rate are all the rate of the call that took the lock last.
InSetBaudrate(c) == hstate[c] \in {"cmd_set", "set_locked", "save_locked"}

C38_SetSpeedSerialized ==
    /\ Cardinality({c \in Conns : hstate[c] \in {"set_locked", "save_locked"}}) <= 1
    /\ (lastSet # NoBaud /\ \A c \in Conns : ~InSetBaudrate(c))
          => /\ baudrate = lastSet
             /\ hwBaud = lastSet
             /\ storage => nvs = lastSet

\* Two calls with different rates have returned and none is in progress: the
\* handlers of connections 1 and 2 are about to answer, the call of
\* connection 1 took the lock last.
C38_Witness ==
    /\ storage
    /\ hstate[1] = "respond" /\ sess[1].baud = VALID_BAUDRATES[1]
    /\ hstate[2] = "respond" /\ sess[2].baud = VALID_BAUDRATES[2]
    /\ lastSet = VALID_BAUDRATES[1]
    /\ nvs = VALID_BAUDRATES[1]
    /\ \A c \in Conns : ~InSetBaudrate(c)

\* The places of a handler that has not yet inserted its stream in the
\* registry, and the places inside the loop.
BeforeAdd == {"new", "spawned", "add_locked"}
LoopPlaces == {"serving", "reading", "sending", "uart_locked", "cmd_set",
               "set_locked", "save_locked", "respond", "remove_wait",
               "remove_locked", "remove_count"}

\* Claim C36: for every connection, the step with which the handler gets past
\* add_client has put its stream in the registry under its peer address, and
\* until then it has formatted and written no welcome message and is not in
\* its loop; the welcome message is formatted from the peer address and the
\* rate get_baudrate returns at that moment; it is written once, as the step
\* that enters the loop, with what was formatted; and no step of the loop
\* writes it again.
C36_WelcomeOnceAfterAdd ==
    [][\A c \in Conns :
         /\ (hstate[c] \in BeforeAdd /\ hstate'[c] \notin BeforeAdd)
               => clients'[PeerAddr(c)] = c
         /\ hstate'[c] \in BeforeAdd
               => sess'[c].welcome_msg = <<>> /\ sess'[c].banner = <<>>
         /\ (sess'[c].welcome_msg # sess[c].welcome_msg /\ sess'[c].welcome_msg # <<>>)
               => sess'[c].welcome_msg = <<[addr |-> PeerAddr(c), baud |-> baudrate]>>
         /\ sess'[c].banner # sess[c].banner
               => /\ sess[c].banner = <<>>
                  /\ sess'[c].banner = sess[c].welcome_msg
                  /\ Len(sess'[c].banner) = 1
                  /\ hstate[c] \notin LoopPlaces
                  /\ hstate'[c] = "serving"
         /\ hstate'[c] \in LoopPlaces => Len(sess'[c].banner) = 1
         /\ hstate'[c] = "reading" => Len(sess'[c].banner) = 1]_vars

\* The handler of connection 2 is in a read; its welcome message carried its
\* address and the rate the handler of connection 1 had set before, and it
\* is the only one it wrote.
C36_Witness ==
    /\ hstate[2] = "reading"
    /\ sess[2].banner = <<[addr |-> PeerAddr(2), baud |-> VALID_BAUDRATES[1]]>>
    /\ clients[PeerAddr(2)] = 2
    /\ baudrate = VALID_BAUDRATES[1]

\* What the handler of connection c wrote to its client unasked after the
\* welcome message.
KeepAlives(c) == SubSeq(sess[c].banner, 2, Len(sess[c].banner))

====
